---------------------------- MODULE Spec2Model ----------------------------
(***************************************************************************)
(* Model of the PDF ingestion pipeline of src/streamlit_app.py:            *)
(*   chunk_text           the overlapping, boundary-aware text chunker     *)
(*   index_pdf_document   create-index, fingerprint dedup, chunk writes    *)
(*   extract_text_from_pdf and the upload tab of main()                    *)
(*   search_documents and the search tab of main()                         *)
(* with the engine client built by get_opensearch_client, of the Overview  *)
(* page of src/dashboard_app.py, and of the LlamaParse client of           *)
(* src/app/llama_parse.py (wait_for_completion, extract_from_file,         *)
(* extract_from_multiple_files, save_results).                             *)
(* Texts are sequences of one-character strings.  Offsets are Python's     *)
(* (0-based, half-open); PySlice and RFind convert to TLA+'s 1-based       *)
(* sequences.                                                              *)
(***************************************************************************)
EXTENDS Integers, Sequences, FiniteSets, TLC

VARIABLES
    index_exists,   \* the collection "pdf_documents" exists in the engine
    docs,           \* the collection: stored records, in the order written
    clock,          \* datetime.now(), read once per chunk record
    call,           \* per client: the running/last index_pdf_document call
    history,        \* completed index_pdf_document calls, in completion order
    started,        \* number of index_pdf_document calls started so far
    faults,         \* number of engine requests that raised so far
    run,            \* the chunk_text loop run on its own (SpecChunk)
    ui,             \* what the Streamlit pages have done and shown
    mapping,        \* the collection's schema: who defined its fields
    transport,      \* the engine client's request in flight: sends so far
    parse           \* the LlamaParse client's extraction in progress

vars ==
    <<index_exists, docs, clock, call, history, started, faults, run, ui,
      mapping, transport, parse>>

-----------------------------------------------------------------------------
(* Python built-ins used by the source                                     *)

Max(a, b) == IF a >= b THEN a ELSE b

Min(a, b) == IF a <= b THEN a ELSE b

Rep(c, n) == [i \in 1..n |-> c]

\* s[i:j]: negative indices count from the end, both are clamped to 0..len
PyIndex(n, i) == IF i < 0 THEN Max(n + i, 0) ELSE Min(i, n)

PySlice(s, i, j) ==
    LET lo == PyIndex(Len(s), i)
        hi == PyIndex(Len(s), j)
    IN  IF lo >= hi THEN <<>> ELSE SubSeq(s, lo + 1, hi)

\* s.rfind(c): 0-based index of the last occurrence of c in s, -1 if none
RFind(s, c) ==
    LET hits == {i \in 1..Len(s) : s[i] = c}
    IN  IF hits = {} THEN -1
        ELSE (CHOOSE i \in hits : \A j \in hits : j <= i) - 1

IsSpace(c) == c \in {" ", "\n", "\t"}

\* s.strip(): leading and trailing whitespace removed
Strip(s) ==
    LET n == Len(s)
        lead == CHOOSE k \in 0..n :
                    /\ \A j \in 1..k : IsSpace(s[j])
                    /\ (k = n \/ ~IsSpace(s[k + 1]))
        trail == CHOOSE k \in 0..(n - lead) :
                    /\ \A j \in (n - k + 1)..n : IsSpace(s[j])
                    /\ (k = n - lead \/ ~IsSpace(s[n - k]))
    IN  SubSeq(s, lead + 1, n - trail)

-----------------------------------------------------------------------------
(* chunk_text                                                              *)

DefaultChunkSize == 1000

DefaultOverlap == 200

\* mutant of Window: any boundary in the window is accepted
Window_AnyBoundary(text, chunk_size, start) ==
    LET end == start + chunk_size
        chunk == PySlice(text, start, end)
    IN  IF end < Len(text)
        THEN LET last_period == RFind(chunk, ".")
                 last_space == RFind(chunk, " ")
                 boundary == Max(last_period, last_space)
             IN  IF boundary >= 0
                 THEN [end |-> start + boundary + 1,
                       chunk |-> PySlice(text, start, start + boundary + 1)]
                 ELSE [end |-> end, chunk |-> chunk]
        ELSE [end |-> end, chunk |-> chunk]

\* lines 68-78: the window starting at `start`, shrunk to a boundary or not
Window(text, chunk_size, start) ==
    LET end == start + chunk_size
        chunk == PySlice(text, start, end)
    IN  IF end < Len(text)
        THEN LET last_period == RFind(chunk, ".")
                 last_space == RFind(chunk, " ")
                 boundary == Max(last_period, last_space)
             IN  IF boundary > start + chunk_size \div 2
                 THEN [end |-> start + boundary + 1,
                       chunk |-> PySlice(text, start, start + boundary + 1)]
                 ELSE [end |-> end, chunk |-> chunk]
        ELSE [end |-> end, chunk |-> chunk]

\* lines 80-85: the record appended for a window
ChunkRecord(w, start, chunks) ==
    [text |-> Strip(w.chunk),
     start_position |-> start,
     end_position |-> w.end,
     chunk_id |-> Len(chunks)]

\* mutant of ChunkIteration: the next window starts where this one ends
ChunkIteration_NoOverlap(text, chunk_size, overlap, start, chunks) ==
    LET w == Window(text, chunk_size, start)
        next == w.end
    IN  [chunks |-> Append(chunks, ChunkRecord(w, start, chunks)),
         start |-> next,
         more |-> ~(next >= Len(text))]

\* lines 68-89: one pass through the body of the while loop, entered with
\* start < len(text); `more` is FALSE when the body leaves by `break`
ChunkIteration(text, chunk_size, overlap, start, chunks) ==
    LET w == Window(text, chunk_size, start)
        next == w.end - overlap
    IN  [chunks |-> Append(chunks, ChunkRecord(w, start, chunks)),
         start |-> next,
         more |-> ~(next >= Len(text))]

\* lines 67-91: the while loop, from a given loop state
RECURSIVE ChunkLoop(_, _, _, _, _)
ChunkLoop(text, chunk_size, overlap, start, chunks) ==
    IF ~(start < Len(text)) THEN chunks
    ELSE LET it == ChunkIteration(text, chunk_size, overlap, start, chunks)
         IN  IF it.more
             THEN ChunkLoop(text, chunk_size, overlap, it.start, it.chunks)
             ELSE it.chunks

chunk_text(text, chunk_size, overlap) ==
    ChunkLoop(text, chunk_size, overlap, 0, <<>>)

-----------------------------------------------------------------------------
(* hashlib.md5(text_content.encode()).hexdigest()                          *)
(* The digest is modelled by a hash of the encoded bytes folded over a     *)
(* balanced tree: a deterministic function of the text alone, sensitive to *)
(* its length, to every character and to their order.  IngestTexts below   *)
(* are pairwise collision-free, as MD5 is on any corpus met in practice.   *)

Ord(c) ==
    CASE c = " " -> 32 [] c = "." -> 46 [] c = "A" -> 65
      [] c = "a" -> 97 [] c = "b" -> 98 [] c = "c" -> 99 [] c = "d" -> 100
      [] OTHER -> 63

RECURSIVE DigestRange(_, _, _)
DigestRange(s, lo, hi) ==
    IF lo > hi THEN 0
    ELSE IF lo = hi THEN Ord(s[lo])
    ELSE LET mid == (lo + hi) \div 2
         IN  (257 * DigestRange(s, lo, mid)
                + 263 * DigestRange(s, mid + 1, hi) + 1) % 32749

md5_hexdigest(text) == <<Len(text), DigestRange(text, 1, Len(text))>>

-----------------------------------------------------------------------------
(* The index engine, as index_pdf_document uses it                         *)

\* mutants of SearchTotal: a query that does not see the record written
\* last, and a query without the term filter
SearchTotal_Unrefreshed(stored, file_hash) ==
    Cardinality({i \in 1..(Len(stored) - 1) :
                    stored[i].file_hash = file_hash})

SearchTotal_MatchAll(stored, file_hash) == Len(stored)

\* client.search(body={"query": {"term": {"file_hash": h}}}, size=1):
\* hits.total.value, the number of stored records whose file_hash is h
SearchTotal(stored, file_hash) ==
    Cardinality({i \in 1..Len(stored) : stored[i].file_hash = file_hash})

\* client.index(index, body=doc) without an id: the engine stores the
\* document under a fresh id and acknowledges result "created"
EngineIndex(stored, doc) ==
    [docs |-> Append(stored, doc), result |-> "created"]

-----------------------------------------------------------------------------
(* index_pdf_document                                                      *)

Clients == {"s1", "s2"}

FileNames == {"a.pdf", "b.pdf"}

EmptyText == <<>>

ShortText == <<"A", "b", ".", " ", "c", "d">>

\* 1301 characters, three chunks: [0,601) shrunk to the full stop, then
\* [401,1401) and [1201,2201) reaching the end of the text
LongText == Rep("a", 600) \o <<".">> \o Rep("b", 700)

IngestTexts == {EmptyText, ShortText, LongText}

\* md5_hexdigest and chunk_text (with its defaults, line 127) are pure:
\* they are tabulated once on the texts the model ingests
Md5Of == [t \in IngestTexts |-> md5_hexdigest(t)]

ChunksOf ==
    [t \in IngestTexts |-> chunk_text(t, DefaultChunkSize, DefaultOverlap)]

\* calls started in a behaviour, and engine requests that raise in it
MaxCalls == 2

MaxFaults == 1

NoResult == [status |-> "none"]

IdleCall ==
    [pc |-> "idle", pdf_name |-> "", text_content |-> <<>>,
     file_hash |-> <<>>, hits |-> -1, chunks |-> <<>>, indexed_chunks |-> 0,
     result |-> NoResult,
     \* bookkeeping for the properties, not read by the code
     \*   n_chunks     len(chunks), kept when the call is archived
     \*   seq          start number of the call
     \*   done_before  number of calls that had returned when it was made
     \*   check_len    number of stored records when its dedup query ran
     \*   written      positions in docs of the records it has written
     \*   acks         writes the engine acknowledged as "created"
     \*   raised_at    the request that raised: create, search or write
     n_chunks |-> 0, seq |-> 0, done_before |-> 0, check_len |-> -1,
     written |-> <<>>, acks |-> 0, raised_at |-> "none"]

\* a record whose fingerprint is taken per chunk, not from the full text
ChunkDoc_HashPerChunk(c, chunk) ==
    [filename |-> c.pdf_name,
     content |-> chunk.text,
     chunk_id |-> chunk.chunk_id,
     start_position |-> chunk.start_position,
     end_position |-> chunk.end_position,
     upload_date |-> clock,
     file_hash |-> <<c.file_hash[1], c.file_hash[2] + chunk.chunk_id>>]

\* lines 132-140
ChunkDoc(c, chunk) ==
    [filename |-> c.pdf_name,
     content |-> chunk.text,
     chunk_id |-> chunk.chunk_id,
     start_position |-> chunk.start_position,
     end_position |-> chunk.end_position,
     upload_date |-> clock,
     file_hash |-> c.file_hash]

\* line 146, and line 124
SuccessResult(n) == [status |-> "success", chunks_indexed |-> n]

ExistsResult == [status |-> "exists", message |-> "Document already indexed"]

\* line 149
ErrorResult(reason) == [status |-> "error", message |-> reason]

\* the call of client p returns r: it is archived (without its local list
\* of chunks, n_chunks keeps their number) and the client is free
Return(p, c, r) ==
    /\ history' = Append(history, [c EXCEPT !.pc = "done", !.result = r,
                                              !.chunks = <<>>])
    /\ call' = [call EXCEPT ![p] = IdleCall]

\* a client calls index_pdf_document(client, pdf_name, text_content).
\* Sessions and file names are interchangeable, so s2 is taken only while
\* s1 is busy and the first call of a behaviour takes the first name.
Start(p) ==
    /\ call[p].pc = "idle"
    /\ (p = "s2" => call["s1"].pc # "idle")
    /\ started < MaxCalls
    /\ \E name \in (IF started = 0 THEN {"a.pdf"} ELSE FileNames),
          text \in IngestTexts :
          call' = [call EXCEPT ![p] =
                     [IdleCall EXCEPT !.pc = "create", !.pdf_name = name,
                                      !.text_content = text,
                                      !.seq = started + 1,
                                      !.done_before = Len(history)]]
    /\ started' = started + 1
    /\ UNCHANGED <<index_exists, docs, clock, history, faults, run, ui,
                   mapping, transport, parse>>

\* The schema of the collection, as the set of field paths it defines.
\* lines 97-109: the mapping index_pdf_document sends with the create
\* request; filename and content are plain text fields, without sub-fields
WriterMapping ==
    {"filename", "content", "chunk_id", "start_position", "end_position",
     "upload_date", "file_hash"}

\* a collection created without a mapping (POST /index/pdf_documents of
\* src/app/main.py, line 54): the engine maps every string field of a record
\* as text with a keyword sub-field
DynamicMapping ==
    WriterMapping \cup {"filename.keyword", "content.keyword",
                        "file_hash.keyword"}

\* no collection, no schema
NoMapping == {}

\* the schemas a collection found at start can have
Schemas ==
    IF index_exists THEN {WriterMapping, DynamicMapping} ELSE {NoMapping}

\* a create request that answers 400 "already exists" and raises
CreateIndex_RaisesIfExists(p) ==
    /\ call[p].pc = "create"
    /\ IF index_exists
       THEN /\ Return(p, call[p], ErrorResult("RequestError"))
            /\ UNCHANGED <<index_exists, mapping>>
       ELSE /\ index_exists' = TRUE
            /\ mapping' = WriterMapping
            /\ call' = [call EXCEPT ![p].pc = "search"]
            /\ UNCHANGED history
    /\ UNCHANGED <<docs, clock, started, faults, run, ui, transport, parse>>

\* line 111: client.indices.create(..., body=index_mapping, ignore=400);
\* the engine creates the collection with the mapping sent, or answers 400
\* when it exists, which ignore=400 turns into a normal return
CreateIndex(p) ==
    /\ call[p].pc = "create"
    /\ index_exists' = TRUE
    /\ mapping' = IF index_exists THEN mapping ELSE WriterMapping
    /\ call' = [call EXCEPT ![p].pc = "search"]
    /\ UNCHANGED <<docs, clock, history, started, faults, run, ui, transport,
                   parse>>

\* mutant of FileHash: the file name enters the fingerprint
FileHash_WithName(c) == <<Md5Of[c.text_content], c.pdf_name>>

\* line 114: the fingerprint of the call's document
FileHash(c) == Md5Of[c.text_content]

\* mutants of IsDuplicate: an off-by-one threshold, and no gate at all
IsDuplicate_MoreThanOne(total) == total > 1

IsDuplicate_Never(total) == FALSE

\* line 123: what the dedup gate decides from the total of the term query
IsDuplicate(total) == total > 0

\* lines 114-127 (and 146 when there is no chunk): fingerprint, dedup query,
\* chunking
DedupSearch(p) ==
    /\ call[p].pc = "search"
    /\ LET c == call[p]
           file_hash == FileHash(c)
           total == SearchTotal(docs, file_hash)
           c1 == [c EXCEPT !.file_hash = file_hash, !.hits = total,
                           !.check_len = Len(docs)]
       IN  IF IsDuplicate(total)
           THEN Return(p, c1, ExistsResult)
           ELSE LET chunks == ChunksOf[c.text_content]
                    c2 == [c1 EXCEPT !.chunks = chunks,
                                     !.n_chunks = Len(chunks)]
                IN  IF chunks = <<>>
                    THEN Return(p, c2, SuccessResult(0))
                    ELSE /\ call' = [call EXCEPT ![p] =
                                       [c2 EXCEPT !.pc = "write"]]
                         /\ UNCHANGED history
    /\ UNCHANGED <<index_exists, docs, clock, started, faults, run, ui,
                   mapping, transport, parse>>

\* lines 143-144
CountAck(indexed_chunks, result) ==
    IF result = "created" THEN indexed_chunks + 1 ELSE indexed_chunks

\* lines 131-146: one pass of the loop over chunks, returning after the last
IndexChunk(p) ==
    /\ call[p].pc = "write"
    /\ LET c == call[p]
           k == Len(c.written) + 1
           response == EngineIndex(docs, ChunkDoc(c, c.chunks[k]))
           c1 == [c EXCEPT !.indexed_chunks =
                               CountAck(c.indexed_chunks, response.result),
                           !.written = Append(c.written, Len(response.docs)),
                           !.acks = IF response.result = "created"
                                    THEN c.acks + 1 ELSE c.acks]
       IN  /\ docs' = response.docs
           /\ clock' = clock + 1
           /\ IF k = Len(c.chunks)
              THEN Return(p, c1, SuccessResult(c1.indexed_chunks))
              ELSE /\ call' = [call EXCEPT ![p] = c1]
                   /\ UNCHANGED history
    /\ UNCHANGED <<index_exists, started, faults, run, ui, mapping,
                   transport, parse>>

\* mutant of EngineRaises: the except clause deletes the call's last records
EngineRaises_Rollback(p) ==
    /\ call[p].pc \in {"create", "search", "write"}
    /\ faults < MaxFaults
    /\ faults' = faults + 1
    /\ docs' = SubSeq(docs, 1, Len(docs) - Len(call[p].written))
    /\ Return(p, [call[p] EXCEPT !.raised_at = call[p].pc],
              ErrorResult("TransportError"))
    /\ UNCHANGED <<index_exists, clock, started, run, ui, mapping, transport,
                   parse>>

\* lines 148-149: the engine request the call is about to make raises; the
\* request has no effect on the collection
EngineRaises(p) ==
    /\ call[p].pc \in {"create", "search", "write"}
    /\ faults < MaxFaults
    /\ faults' = faults + 1
    /\ Return(p, [call[p] EXCEPT !.raised_at = call[p].pc],
              ErrorResult("TransportError"))
    /\ UNCHANGED <<index_exists, docs, clock, started, run, ui, mapping,
                   transport, parse>>

\* no engine request is in flight
NoTransport == [seq |-> 0, chunk_id |-> -1, timeouts |-> 0]

\* the LlamaParse client is not used
NoParse == [pc |-> "off"]

\* no page of the Streamlit apps has been used
NoUi == [pc |-> "off"]

NoRun ==
    [pc |-> "off", text |-> <<>>, chunk_size |-> 0, overlap |-> 0,
     start |-> 0, chunks |-> <<>>, seen |-> {}]

Init ==
    /\ index_exists \in BOOLEAN
    /\ docs = <<>>
    /\ clock = 0
    /\ call = [p \in Clients |-> IdleCall]
    /\ history = <<>>
    /\ started = 0
    /\ faults = 0
    /\ run = NoRun
    /\ ui = NoUi
    /\ mapping = (IF index_exists THEN WriterMapping ELSE NoMapping)
    /\ transport = NoTransport
    /\ parse = NoParse

Next ==
    \E p \in Clients :
        \/ Start(p)
        \/ CreateIndex(p)
        \/ DedupSearch(p)
        \/ IndexChunk(p)
        \/ EngineRaises(p)

Spec == Init /\ [][Next]_vars

-----------------------------------------------------------------------------
(* Properties of index_pdf_document, checked under Spec.                   *)
(* Calls are named by their start number (seq).                            *)

CallIds == 1..started

Returned(n) == \E i \in 1..Len(history) : history[i].seq = n

ReturnPos(n) == CHOOSE i \in 1..Len(history) : history[i].seq = n

CallOf(n) ==
    IF Returned(n) THEN history[ReturnPos(n)]
    ELSE call[CHOOSE p \in Clients : call[p].seq = n]

\* call m returned before call n was made
Precedes(m, n) == Returned(m) /\ ReturnPos(m) <= CallOf(n).done_before

Overlap(m, n) == m # n /\ ~Precedes(m, n) /\ ~Precedes(n, m)

SameContent(m, n) == CallOf(m).text_content = CallOf(n).text_content

\* no engine request of the call raised
NoFault(n) == CallOf(n).raised_at = "none"

\* when call n made its dedup query, no call on the same content had written
FreshAtCheck(n) ==
    /\ CallOf(n).check_len >= 0
    /\ \A x \in CallIds \ {n} :
          SameContent(x, n) =>
             \/ CallOf(x).written = <<>>
             \/ CallOf(x).written[1] > CallOf(n).check_len

\* stored record d is chunk k (counted from 1) of the document of call c
IsChunkDocOf(d, c, k) ==
    LET chunk == ChunksOf[c.text_content][k]
    IN  /\ d.filename = c.pdf_name
        /\ d.content = chunk.text
        /\ d.chunk_id = chunk.chunk_id
        /\ d.start_position = chunk.start_position
        /\ d.end_position = chunk.end_position
        /\ d.file_hash = Md5Of[c.text_content]

\* the records call n has written are, in order, the first chunks of its
\* document, and they are in the collection
WrotePrefix(n) ==
    LET c == CallOf(n)
    IN  /\ Len(c.written) <= Len(ChunksOf[c.text_content])
        /\ \A j \in 1..Len(c.written) :
              /\ c.written[j] \in 1..Len(docs)
              /\ IsChunkDocOf(docs[c.written[j]], c, j)

\* the collection holds the records the calls have written and nothing else
OnlyWritten ==
    LET writes == UNION {{<<n, j>> : j \in 1..Len(CallOf(n).written)} :
                           n \in CallIds}
    IN  /\ Cardinality(writes) = Len(docs)
        /\ \A i \in 1..Len(docs) :
              \E w \in writes : CallOf(w[1]).written[w[2]] = i

\* two calls on the same content, the second made after the first returned,
\* the first one on content the collection held no record of, no engine
\* request raising
InSequence(m, n) ==
    /\ m # n /\ Returned(n) /\ Precedes(m, n)
    /\ SameContent(m, n)
    /\ NoFault(m) /\ NoFault(n)
    /\ FreshAtCheck(m)

FirstCreatedSecondExists(m, n) ==
    /\ CallOf(m).result.status = "success"
    /\ CallOf(m).result.chunks_indexed > 0
    /\ CallOf(n).result = ExistsResult
    /\ CallOf(n).written = <<>>

\* C1 as stated: ingesting the same content twice in sequence, for every
\* input text, the first call returns success with chunks_indexed > 0 and
\* the second returns exists and writes no record.
C1_TwiceAnyText ==
    \A m, n \in CallIds :
       InSequence(m, n) => FirstCreatedSecondExists(m, n)

\* C1 amended: ingesting the same non-empty content twice in sequence, the
\* first call returns success with chunks_indexed > 0 and the second returns
\* exists and writes no record.
C1_TwiceNonEmptyText ==
    \A m, n \in CallIds :
       InSequence(m, n) /\ CallOf(m).text_content # <<>>
          => FirstCreatedSecondExists(m, n)

C1_Witness ==
    \E m, n \in CallIds :
       /\ InSequence(m, n) /\ CallOf(m).text_content # <<>>
       /\ FirstCreatedSecondExists(m, n)

\* the collection held a record with the fingerprint of call n's text when
\* call n made its dedup query
HeldAtCheck(n) ==
    LET c == CallOf(n)
    IN  /\ c.check_len >= 0
        /\ \E i \in 1..c.check_len :
              docs[i].file_hash = Md5Of[c.text_content]

\* C2: a call whose dedup query is answered while the collection holds a
\* record with the fingerprint of its text returns exists and writes no
\* record, also when those records are what an aborted batch left behind.
C2_DuplicateWritesNothing ==
    \A n \in CallIds :
       HeldAtCheck(n) =>
          /\ Returned(n)
          /\ CallOf(n).result = ExistsResult
          /\ CallOf(n).written = <<>>

\* a call returned exists on the leftovers of a call aborted by a write error
C2_Witness ==
    \E m, n \in CallIds :
       /\ m # n /\ HeldAtCheck(n) /\ Returned(n)
       /\ CallOf(n).result = ExistsResult
       /\ Returned(m) /\ CallOf(m).raised_at = "write"
       /\ CallOf(m).result.status = "error"
       /\ Len(CallOf(m).written) \in 1..(CallOf(m).n_chunks - 1)
       /\ \A i \in 1..CallOf(n).check_len :
             docs[i].file_hash = Md5Of[CallOf(n).text_content]
                => \E j \in 1..Len(CallOf(m).written) :
                      CallOf(m).written[j] = i

\* C3: the dedup gate is a read before the writes, without mutual exclusion:
\* two calls that both wrote records of the same content overlapped in time,
\* and each made its dedup query before the other's first write (calls that
\* do not overlap write a content at most once).
C3_AtMostOnceUnlessOverlapping ==
    \A m, n \in CallIds :
       (/\ m # n /\ SameContent(m, n)
        /\ CallOf(m).written # <<>> /\ CallOf(n).written # <<>>)
          => /\ Overlap(m, n)
             /\ CallOf(m).hits = 0 /\ CallOf(n).hits = 0
             /\ CallOf(m).check_len < CallOf(n).written[1]
             /\ CallOf(n).check_len < CallOf(m).written[1]

\* the race: two overlapping calls on the same content both returned success
\* and the collection holds two full chunk sets with one fingerprint
C3_Witness ==
    \E m, n \in CallIds :
       /\ Overlap(m, n) /\ SameContent(m, n)
       /\ Returned(m) /\ Returned(n)
       /\ CallOf(m).n_chunks > 1
       /\ CallOf(m).result = SuccessResult(CallOf(m).n_chunks)
       /\ CallOf(n).result = SuccessResult(CallOf(n).n_chunks)
       /\ Len(CallOf(m).written) = CallOf(m).n_chunks
       /\ Len(CallOf(n).written) = CallOf(n).n_chunks
       /\ WrotePrefix(m) /\ WrotePrefix(n)
       /\ Len(docs) = 2 * CallOf(m).n_chunks
       /\ \A i \in 1..Len(docs) :
             docs[i].file_hash = Md5Of[CallOf(m).text_content]

C5_EmptyTextFails ==
    \A n \in CallIds :
       (/\ Returned(n) /\ NoFault(n)
        /\ CallOf(n).text_content = <<>>)
          => /\ CallOf(n).result = ErrorResult("no content")
             /\ CallOf(n).written = <<>>

\* C6: identity is the content.  After a call that indexed a document, (a) a
\* call with another file name and the same text returns exists, and (b) a
\* call with the same file name and a text no call has written returns
\* success with all its chunks indexed.
C6_IdentityByContent ==
    \A m, n \in CallIds :
       (/\ m # n /\ Returned(n) /\ Precedes(m, n) /\ NoFault(n)
        /\ CallOf(m).result.status = "success"
        /\ CallOf(m).written # <<>>)
          => /\ (/\ CallOf(n).pdf_name # CallOf(m).pdf_name
                 /\ SameContent(m, n))
                   => CallOf(n).result = ExistsResult
             /\ (/\ CallOf(n).pdf_name = CallOf(m).pdf_name
                 /\ \A x \in CallIds \ {n} :
                       SameContent(x, n) => CallOf(x).written = <<>>)
                   => /\ CallOf(n).result =
                            SuccessResult(
                               Len(ChunksOf[CallOf(n).text_content]))
                      /\ Len(CallOf(n).written) =
                            Len(ChunksOf[CallOf(n).text_content])

\* both cases of C6, after a document indexed under "a.pdf"
C6_WitnessOtherName ==
    \E m, n \in CallIds :
       /\ Precedes(m, n) /\ Returned(n)
       /\ CallOf(m).result.status = "success" /\ CallOf(m).written # <<>>
       /\ CallOf(n).pdf_name # CallOf(m).pdf_name /\ SameContent(m, n)
       /\ CallOf(n).result = ExistsResult

C6_WitnessSameName ==
    \E m, n \in CallIds :
       /\ Precedes(m, n) /\ Returned(n)
       /\ CallOf(m).result.status = "success" /\ CallOf(m).written # <<>>
       /\ CallOf(n).pdf_name = CallOf(m).pdf_name /\ ~SameContent(m, n)
       /\ CallOf(n).result.status = "success"
       /\ CallOf(n).result.chunks_indexed > 0

\* C7: a call returns success only if it wrote at least one chunk, and the
\* count it reports is the number of writes acknowledged as "created".
C7_CreatedCountsAcks ==
    \A n \in CallIds :
       (Returned(n) /\ CallOf(n).result.status = "success")
          => /\ CallOf(n).written # <<>>
             /\ CallOf(n).result.chunks_indexed > 0
             /\ CallOf(n).result.chunks_indexed = CallOf(n).acks

\* C8: in every state the collection holds, for each call, none of the
\* chunk records of its document or all of them.
C8_BatchAtomic ==
    \A n \in CallIds :
       Len(CallOf(n).written) \in {0, CallOf(n).n_chunks}

\* C9: a call whose content no other call ingests, and none of whose engine
\* requests raises, writes the chunk records of its document in order and
\* returns success with their number, whatever the other calls do meanwhile;
\* when all calls are of that kind and have returned, the collection is the
\* union of their chunk sets.
Alone(n) ==
    NoFault(n) /\ \A x \in CallIds \ {n} : ~SameContent(x, n)

C9_DistinctIndependent ==
    /\ \A n \in CallIds :
          Alone(n) =>
             /\ WrotePrefix(n)
             /\ Returned(n) =>
                   /\ CallOf(n).result =
                         SuccessResult(Len(ChunksOf[CallOf(n).text_content]))
                   /\ Len(CallOf(n).written) =
                         Len(ChunksOf[CallOf(n).text_content])
    /\ (\A n \in CallIds : Alone(n) /\ Returned(n)) => OnlyWritten

\* two overlapping calls on different non-empty contents both returned
C9_Witness ==
    \E m, n \in CallIds :
       /\ Overlap(m, n) /\ Alone(m) /\ Alone(n)
       /\ Returned(m) /\ Returned(n)
       /\ CallOf(m).written # <<>> /\ CallOf(n).written # <<>>
       /\ CallOf(m).written[Len(CallOf(m).written)] > CallOf(n).written[1]
       /\ CallOf(n).written[Len(CallOf(n).written)] > CallOf(m).written[1]
       /\ Len(docs) = CallOf(m).n_chunks + CallOf(n).n_chunks

-----------------------------------------------------------------------------
(* chunk_text run on its own, one pass of the while loop per step, on every *)
(* text over Alphabet up to MaxTextLen and every valid (chunk_size,         *)
(* overlap) up to MaxChunkSize.                                             *)
(* The loop body reads only text, chunk_size, overlap and start (chunks     *)
(* only grows), so a pass entered with a start offset that an earlier pass  *)
(* was entered with repeats that pass for ever: the run is then marked      *)
(* "diverges" and stepped no further.                                       *)

Alphabet == {"a", ".", " "}

MaxTextLen == 6

MaxChunkSize == 5

RECURSIVE TextsOfLen(_)
TextsOfLen(n) ==
    IF n = 0 THEN {<<>>}
    ELSE {Append(t, c) : t \in TextsOfLen(n - 1), c \in Alphabet}

ChunkTexts == UNION {TextsOfLen(n) : n \in 0..MaxTextLen}

InitChunk ==
    /\ index_exists = FALSE
    /\ docs = <<>>
    /\ clock = 0
    /\ call = [p \in Clients |-> IdleCall]
    /\ history = <<>>
    /\ started = 0
    /\ faults = 0
    /\ ui = NoUi
    /\ mapping = (IF index_exists THEN WriterMapping ELSE NoMapping)
    /\ transport = NoTransport
    /\ parse = NoParse
    /\ \E text \in ChunkTexts, chunk_size \in 1..MaxChunkSize :
         \E overlap \in 0..(chunk_size - 1) :
            run = [pc |-> "loop", text |-> text, chunk_size |-> chunk_size,
                   overlap |-> overlap, start |-> 0, chunks |-> <<>>,
                   seen |-> {}]

\* line 67 false: the loop is not entered (again), line 91 returns
ChunkReturn ==
    /\ run.pc = "loop"
    /\ ~(run.start < Len(run.text))
    /\ run' = [run EXCEPT !.pc = "done"]
    /\ UNCHANGED <<index_exists, docs, clock, call, history, started, faults,
                   ui, mapping, transport, parse>>

\* lines 67-89: one pass of the loop body
ChunkPass ==
    /\ run.pc = "loop"
    /\ run.start < Len(run.text)
    /\ run.start \notin run.seen
    /\ LET it == ChunkIteration(run.text, run.chunk_size, run.overlap,
                                run.start, run.chunks)
       IN  run' = [run EXCEPT !.chunks = it.chunks,
                              !.start = it.start,
                              !.seen = run.seen \cup {run.start},
                              !.pc = IF it.more THEN "loop" ELSE "done"]
    /\ UNCHANGED <<index_exists, docs, clock, call, history, started, faults,
                   ui, mapping, transport, parse>>

\* the loop is back at a start offset it has already processed
ChunkRepeats ==
    /\ run.pc = "loop"
    /\ run.start < Len(run.text)
    /\ run.start \in run.seen
    /\ run' = [run EXCEPT !.pc = "diverges"]
    /\ UNCHANGED <<index_exists, docs, clock, call, history, started, faults,
                   ui, mapping, transport, parse>>

NextChunk == ChunkReturn \/ ChunkPass \/ ChunkRepeats

SpecChunk == InitChunk /\ [][NextChunk]_vars

-----------------------------------------------------------------------------
(* Properties of chunk_text, checked under SpecChunk.                      *)

\* C10: for every chunk_size > 0, 0 <= overlap < chunk_size and finite text
\* chunk_text terminates: the loop never comes back to a start offset it has
\* already processed.
C10_ChunkTerminates == run.pc # "diverges"

\* the text positions lying in some window [start_position, end_position)
Covered(chunks) ==
    UNION {chunks[i].start_position .. (chunks[i].end_position - 1) :
              i \in DOMAIN chunks}

\* C11: for every chunk_size > 0, 0 <= overlap < chunk_size and finite text,
\* the windows of the returned chunks cover the text exactly (the union of
\* the ranges [start, end) is [0, len(text))), and every window after the
\* first starts at the end of the one before minus overlap.
C11_WindowsCoverExactly ==
    run.pc = "done" =>
       /\ Covered(run.chunks) = 0..(Len(run.text) - 1)
       /\ \A i \in 2..Len(run.chunks) :
             run.chunks[i].start_position =
                run.chunks[i - 1].end_position - run.overlap

\* C13: a returned chunk never has an empty text: a window holding only
\* whitespace yields no chunk record.
C13_NoEmptyChunk ==
    \A i \in DOMAIN run.chunks : run.chunks[i].text # <<>>

-----------------------------------------------------------------------------
(* Properties of the stored chunk records, checked under Spec.             *)

\* C12: every chunk record written by index_pdf_document has
\* 0 <= start_position <= end_position <= len(text) for the text of its
\* document, and its content is the stripped text[start_position:end_position].
C12_OffsetsWithinText ==
    \A n \in CallIds :
       \A j \in 1..Len(CallOf(n).written) :
          LET d == docs[CallOf(n).written[j]]
              text == CallOf(n).text_content
          IN  /\ 0 <= d.start_position
              /\ d.start_position <= d.end_position
              /\ d.end_position <= Len(text)
              /\ d.content =
                    Strip(PySlice(text, d.start_position, d.end_position))

-----------------------------------------------------------------------------
(* chunk_text on wider windows and on every (chunk_size, overlap) from -1   *)
(* up to MaxWideChunk, valid or not: the function has no check of its       *)
(* parameters.  The texts are runs of "a" up to MaxWideLen holding at most  *)
(* one boundary character.  With chunk_size <= overlap the start offset can *)
(* decrease for ever without repeating, so a run is followed for at most    *)
(* MaxPasses passes of the loop.                                            *)

MaxWideLen == 10

MaxWideChunk == 9

MaxPasses == 16

Marks == {".", " "}

\* n times "a", with character p (counted from 1), if there is one, set to m
WithMark(n, p, m) == [i \in 1..n |-> IF i = p THEN m ELSE "a"]

WideTexts ==
    {WithMark(n, p, m) : n \in 0..MaxWideLen, p \in 0..MaxWideLen, m \in Marks}

InitChunkWide ==
    /\ index_exists = FALSE
    /\ docs = <<>>
    /\ clock = 0
    /\ call = [p \in Clients |-> IdleCall]
    /\ history = <<>>
    /\ started = 0
    /\ faults = 0
    /\ ui = NoUi
    /\ mapping = (IF index_exists THEN WriterMapping ELSE NoMapping)
    /\ transport = NoTransport
    /\ parse = NoParse
    /\ \E text \in WideTexts :
         \E chunk_size \in (-1)..MaxWideChunk, overlap \in (-1)..MaxWideChunk :
            run = [pc |-> "loop", text |-> text, chunk_size |-> chunk_size,
                   overlap |-> overlap, start |-> 0, chunks |-> <<>>,
                   seen |-> {}]

\* lines 67-89: one pass of the loop body, of the first MaxPasses
ChunkPassCapped ==
    /\ Len(run.chunks) < MaxPasses
    /\ ChunkPass

NextChunkWide == ChunkReturn \/ ChunkPassCapped \/ ChunkRepeats

SpecChunkWide == InitChunkWide /\ [][NextChunkWide]_vars

-----------------------------------------------------------------------------
(* Properties of chunk_text, checked under SpecChunkWide.                  *)

\* the configurations chunk() accepts
ValidConfig(chunk_size, overlap) ==
    chunk_size > 0 /\ 0 <= overlap /\ overlap < chunk_size

\* C14: the chunk_id values of a returned chunk list are exactly 0..n-1 in
\* emission order (the i-th chunk has chunk_id i, counted from 0) and the
\* start offsets are ordered the same way.
C14_SequenceIndexInOrder ==
    (run.pc = "done" /\ ValidConfig(run.chunk_size, run.overlap)) =>
       /\ \A i \in DOMAIN run.chunks : run.chunks[i].chunk_id = i - 1
       /\ \A i, j \in DOMAIN run.chunks :
             i < j =>
                run.chunks[i].start_position < run.chunks[j].start_position

\* the chunk_id half of C14 alone
SequenceIndexGapFree ==
    \A i \in DOMAIN run.chunks : run.chunks[i].chunk_id = i - 1

\* C15: with chunk_size <= 0, overlap < 0 or overlap >= chunk_size,
\* chunk_text is left with an error before any chunk is emitted: it neither
\* appends a chunk nor returns a list.
C15_InvalidConfigRejected ==
    ~ValidConfig(run.chunk_size, run.overlap) =>
       (run.chunks = <<>> /\ run.pc # "done")

\* C16: every chunk record of one document carries the same file_hash, and
\* the file_hash depends on the full text only: records written by calls on
\* the same text have the same file_hash whatever the file name, the chunk
\* and the time of the write.
C16_OneFingerprintPerText ==
    \A m, n \in CallIds :
       SameContent(m, n) =>
          \A i \in 1..Len(CallOf(m).written), j \in 1..Len(CallOf(n).written) :
             docs[CallOf(m).written[i]].file_hash =
                docs[CallOf(n).written[j]].file_hash

\* two calls under different file names wrote the chunks of one text at
\* different times
C16_Witness ==
    \E m, n \in CallIds :
       /\ SameContent(m, n)
       /\ CallOf(m).pdf_name # CallOf(n).pdf_name
       /\ Len(CallOf(m).written) >= 2 /\ Len(CallOf(n).written) >= 2
       /\ docs[CallOf(m).written[1]].upload_date #
             docs[CallOf(n).written[2]].upload_date
       /\ docs[CallOf(m).written[1]].content #
             docs[CallOf(m).written[2]].content

-----------------------------------------------------------------------------
(* The upload tab of main() (lines 215-247): a click on "Index <file>"     *)
(* extracts the text of the uploaded PDF and, if there is any, calls       *)
(* index_pdf_document, whose engine requests are the steps of Spec.        *)
(* A Python value that is None or a str:                                   *)

PyNone == [none |-> TRUE, str |-> <<>>]

PyStr(s) == [none |-> FALSE, str |-> s]

\* mutant of Truthy: the test `text_content is not None`
Truthy_NotNone(v) == ~v.none

\* line 226: `if text_content:`
Truthy(v) == ~v.none /\ v.str # <<>>

\* lines 51-55: the page texts, each followed by a newline
RECURSIVE JoinPages(_)
JoinPages(pages) ==
    IF pages = <<>> THEN <<>>
    ELSE Head(pages) \o <<"\n">> \o JoinPages(Tail(pages))

\* lines 47-60: None when PyPDF2 raises on the file or on one of its pages
extract_text_from_pdf(pdf_file) ==
    IF pdf_file.readable THEN PyStr(Strip(JoinPages(pdf_file.pages)))
    ELSE PyNone

\* extract_text_from_pdf is pure: it is tabulated on the uploaded files,
\* which have no page, a blank page, or one page of ShortText or LongText,
\* or make PyPDF2 raise
BlankPage == <<" ", "\n", " ">>

PdfFiles ==
    {[readable |-> TRUE, pages |-> ps] :
        ps \in {<<>>, <<BlankPage>>, <<ShortText>>, <<LongText>>}}
    \cup {[readable |-> FALSE, pages |-> <<ShortText>>]}

ExtractOf == [f \in PdfFiles |-> extract_text_from_pdf(f)]

\* clicks on "Index <file>" in a behaviour
MaxUploads == 3

\* lines 59, 227, 247: what the click has shown before any engine request
ExtractMessages(text_content) ==
    IF Truthy(text_content) THEN <<"Extracted characters from PDF">>
    ELSE IF text_content.none
         THEN <<"Error extracting text from PDF",
                "Failed to extract text from PDF">>
         ELSE <<"Failed to extract text from PDF">>

\* lines 241-246: what the click shows when index_pdf_document has returned
IndexMessage(result) ==
    IF result.status = "success" THEN "Successfully indexed"
    ELSE IF result.status = "exists" THEN "Document already indexed"
    ELSE "Error indexing document"

InitUpload ==
    /\ index_exists \in BOOLEAN
    /\ docs = <<>>
    /\ clock = 0
    /\ call = [p \in Clients |-> IdleCall]
    /\ history = <<>>
    /\ started = 0
    /\ faults = 0
    /\ run = NoRun
    /\ ui = [pc |-> "upload", uploads |-> <<>>]
    /\ mapping \in Schemas
    /\ transport = NoTransport
    /\ parse = NoParse

\* lines 221-247 up to the first engine request: session p clicks
\* "Index <file>".  With text, index_pdf_document is called (its requests
\* follow as CreateIndex, DedupSearch, IndexChunk, EngineRaises); without,
\* the click ends with the error message.  File names are interchangeable,
\* as in Start.
UploadClick(p) ==
    /\ call[p].pc = "idle"
    /\ Len(ui.uploads) < MaxUploads
    /\ \E name \in (IF ui.uploads = <<>> THEN {"a.pdf"} ELSE FileNames),
          pdf_file \in PdfFiles :
          LET text_content == ExtractOf[pdf_file]
              calls == Truthy(text_content)
              event == [session |-> p, name |-> name,
                        extracted |-> IF text_content.none THEN -1
                                      ELSE Len(text_content.str),
                        messages |-> ExtractMessages(text_content),
                        seq |-> IF calls THEN started + 1 ELSE 0]
          IN  /\ calls => started < MaxCalls
              /\ ui' = [ui EXCEPT !.uploads = Append(@, event)]
              /\ IF calls
                 THEN /\ call' = [call EXCEPT ![p] =
                                    [IdleCall EXCEPT
                                        !.pc = "create",
                                        !.pdf_name = name,
                                        !.text_content = text_content.str,
                                        !.seq = started + 1,
                                        !.done_before = Len(history)]]
                      /\ started' = started + 1
                 ELSE UNCHANGED <<call, started>>
    /\ UNCHANGED <<index_exists, docs, clock, history, faults, run, mapping,
                   transport, parse>>

\* an engine request of a running index_pdf_document call
UploadRequest(p) ==
    /\ \/ CreateIndex(p)
       \/ DedupSearch(p)
       \/ IndexChunk(p)
       \/ EngineRaises(p)

\* the clicks of one session are handled one after the other; sessions
\* running index_pdf_document at the same time are the subject of Spec
UploadSessions == {"s1"}

NextUpload == \E p \in UploadSessions : UploadClick(p) \/ UploadRequest(p)

SpecUpload == InitUpload /\ [][NextUpload]_vars

-----------------------------------------------------------------------------
(* Properties of the upload tab, checked under SpecUpload.                 *)

\* the click found no text: extract_text_from_pdf raised (-1) or returned ""
ExtractFailed(u) == u.extracted <= 0

\* C20: a failed text extraction is terminal for its document: the click
\* shows the failure and makes no index_pdf_document call, hence no engine
\* request (create, dedup query, chunk write), so that every call made and
\* every record stored belongs to a click whose extraction gave text.
C20_ExtractFailureIsTerminal ==
    /\ \A i \in DOMAIN ui.uploads :
          ExtractFailed(ui.uploads[i]) =>
             /\ ui.uploads[i].seq = 0
             /\ ui.uploads[i].messages[Len(ui.uploads[i].messages)] =
                   "Failed to extract text from PDF"
    /\ \A n \in CallIds :
          \E i \in DOMAIN ui.uploads :
             /\ ui.uploads[i].seq = n
             /\ ~ExtractFailed(ui.uploads[i])
             /\ CallOf(n).text_content # <<>>
    /\ OnlyWritten

\* a PDF could not be read while the collection held records, then another
\* document was indexed
C20_Witness ==
    \E i, j, k \in DOMAIN ui.uploads :
       /\ i < j /\ j < k
       /\ ui.uploads[i].seq = 1
       /\ ui.uploads[j].extracted = -1
       /\ ui.uploads[k].seq = 2
       /\ Returned(1) /\ Returned(2)
       /\ CallOf(1).done_before = 0 /\ CallOf(2).done_before = 1
       /\ Len(CallOf(1).written) = 1
       /\ Len(docs) = 1 + Len(CallOf(2).written)
       /\ Len(CallOf(2).written) = 3
       /\ IndexMessage(CallOf(2).result) = "Successfully indexed"

-----------------------------------------------------------------------------
(* The "Overview" page of src/dashboard_app.py (main, lines 322-382): one  *)
(* script run, one engine request per step.  A request can be answered     *)
(* only if the collection exists, and any request may raise.  The page     *)
(* reads the collection that index_pdf_document writes.                    *)

\* the three analytics aggregations of the page
Aggregations == {"unique_documents", "upload_timeline", "file_distribution"}

\* the chunk records of one ingested document, written from time t0 on
StoredDocument(name, text, t0) ==
    [k \in 1..Len(ChunksOf[text]) |->
        [filename |-> name,
         content |-> ChunksOf[text][k].text,
         chunk_id |-> ChunksOf[text][k].chunk_id,
         start_position |-> ChunksOf[text][k].start_position,
         end_position |-> ChunksOf[text][k].end_position,
         upload_date |-> t0 + k - 1,
         file_hash |-> Md5Of[text]]]

\* file names in the engine's order of keyword values
ManyNames ==
    <<"a.pdf", "b.pdf", "c.pdf", "d.pdf", "e.pdf", "f.pdf", "g.pdf",
      "h.pdf", "i.pdf", "j.pdf", "k.pdf", "l.pdf", "m.pdf">>

\* number of documents of the largest collection the page is opened on
MaxNames == 11

\* the collection after ingesting n one-chunk documents with different
\* names and texts: document k is "x" * k
ManyDocuments(n) ==
    [k \in 1..n |->
        LET text == Rep("x", k)
            chunk == chunk_text(text, DefaultChunkSize, DefaultOverlap)[1]
        IN  [filename |-> ManyNames[k],
             content |-> chunk.text,
             chunk_id |-> chunk.chunk_id,
             start_position |-> chunk.start_position,
             end_position |-> chunk.end_position,
             upload_date |-> k - 1,
             file_hash |-> md5_hexdigest(text)]]

\* the collections the page is opened on: up to two ingested documents, or
\* many small ones
OverviewCollections ==
    {<<>>, ManyDocuments(MaxNames)}
    \cup {StoredDocument(n, t, 0) : n \in FileNames, t \in IngestTexts}
    \cup {StoredDocument(n1, t1, 0)
             \o StoredDocument(n2, t2, Len(ChunksOf[t1])) :
                n1 \in FileNames, n2 \in FileNames,
                t1 \in IngestTexts \ {EmptyText},
                t2 \in IngestTexts \ {EmptyText}}

\* lines 342-355: the value of the cardinality aggregation on file_hash
UniqueFiles(stored) ==
    Cardinality({stored[i].file_hash : i \in DOMAIN stored})

\* line 160 and line 251: the size of the terms aggregation and the number
\* of buckets the chart takes
TermsSize == 20

ChartTop == 10

\* lines 152-172: the engine's answer to the search with the terms
\* aggregation "unique_files" on filename.keyword and its value_count of
\* chunk_id: one bucket per value of the field, the (up to) TermsSize
\* values with the most records first, equal counts in the order of the
\* keys.  A field that the schema does not define has no values.
file_distribution(stored, schema) ==
    LET keys == IF "filename.keyword" \in schema
                THEN {stored[i].filename : i \in DOMAIN stored}
                ELSE {}
        count(k) ==
            Cardinality({i \in DOMAIN stored : stored[i].filename = k})
        place(k) == CHOOSE r \in DOMAIN ManyNames : ManyNames[r] = k
        before(c, k) ==
            \/ count(c) > count(k)
            \/ count(c) = count(k) /\ place(c) < place(k)
        sorted == [r \in 1..Cardinality(keys) |->
                      CHOOSE k \in keys :
                         Cardinality({c \in keys : before(c, k)}) = r - 1]
    IN  [r \in 1..Min(TermsSize, Cardinality(keys)) |->
            [key |-> sorted[r], doc_count |-> count(sorted[r]),
             chunks |-> count(sorted[r])]]

\* lines 242-260: the slices of the pie chart, none when there is no bucket
create_file_distribution_chart(buckets) ==
    [r \in 1..Min(ChartTop, Len(buckets)) |->
        [name |-> buckets[r].key, value |-> buckets[r].chunks]]

\* the page before its first request
OverviewStart ==
    [pc |-> "index_stats", index_stats |-> "unset", unique_count |-> -1,
     requested |-> {}, raised |-> {}, reported |-> {}, errors |-> <<>>,
     distribution |-> <<>>]

InitOverview ==
    /\ index_exists \in BOOLEAN
    /\ docs \in OverviewCollections
    /\ (~index_exists => docs = <<>>)
    /\ clock = 0
    /\ call = [p \in Clients |-> IdleCall]
    /\ history = <<>>
    /\ started = 0
    /\ faults = 0
    /\ run = NoRun
    /\ ui = OverviewStart
    /\ mapping \in Schemas
    /\ transport = NoTransport
    /\ parse = NoParse

\* the outcomes of an engine request on the collection: it raises when the
\* collection does not exist and may raise for any other reason
RequestOutcomes == IF index_exists THEN {"ok", "raises"} ELSE {"raises"}

\* lines 326 and 113-120: get_index_stats, None when indices.stats raises
OverviewIndexStats ==
    /\ ui.pc = "index_stats"
    /\ \E outcome \in RequestOutcomes :
          ui' = IF outcome = "ok"
                THEN [ui EXCEPT !.index_stats = "ok",
                                !.pc = "unique_documents"]
                ELSE [ui EXCEPT !.index_stats = "none",
                                !.errors =
                                   Append(@, "Error getting index stats"),
                                !.pc = "upload_timeline"]
    /\ UNCHANGED <<index_exists, docs, clock, call, history, started, faults,
                   run, mapping, transport, parse>>

\* lines 328-356, under `if index_stats:` and outside any try: the
\* cardinality search on file_hash; when it raises the exception leaves
\* main() and the script run ends
OverviewUniqueDocuments ==
    /\ ui.pc = "unique_documents"
    /\ \E outcome \in RequestOutcomes :
          ui' = IF outcome = "ok"
                THEN [ui EXCEPT !.requested = @ \cup {"unique_documents"},
                                !.unique_count = UniqueFiles(docs),
                                !.reported = @ \cup {"unique_documents"},
                                !.pc = "upload_timeline"]
                ELSE [ui EXCEPT !.requested = @ \cup {"unique_documents"},
                                !.raised = @ \cup {"unique_documents"},
                                !.pc = "aborted"]
    /\ UNCHANGED <<index_exists, docs, clock, call, history, started, faults,
                   run, mapping, transport, parse>>

\* lines 363 and 133-149: the first search of search_analytics; when it
\* raises, line 182 of the one try block returns None and the page shows
\* neither chart (line 365)
OverviewUploadTimeline ==
    /\ ui.pc = "upload_timeline"
    /\ \E outcome \in RequestOutcomes :
          ui' = IF outcome = "ok"
                THEN [ui EXCEPT !.requested = @ \cup {"upload_timeline"},
                                !.pc = "file_distribution"]
                ELSE [ui EXCEPT !.requested = @ \cup {"upload_timeline"},
                                !.raised = @ \cup {"upload_timeline"},
                                !.errors =
                                   Append(@, "Error getting search analytics"),
                                !.pc = "done"]
    /\ UNCHANGED <<index_exists, docs, clock, call, history, started, faults,
                   run, mapping, transport, parse>>

\* lines 152-184 and 365-382: the second search of search_analytics; when
\* it is answered both charts (or their "no data" notes) are shown, when it
\* raises search_analytics returns None and neither is
OverviewFileDistribution ==
    /\ ui.pc = "file_distribution"
    /\ \E outcome \in RequestOutcomes :
          ui' = IF outcome = "ok"
                THEN [ui EXCEPT !.requested = @ \cup {"file_distribution"},
                                !.reported = @ \cup {"upload_timeline",
                                                     "file_distribution"},
                                !.distribution =
                                   create_file_distribution_chart(
                                      file_distribution(docs, mapping)),
                                !.pc = "done"]
                ELSE [ui EXCEPT !.requested = @ \cup {"file_distribution"},
                                !.raised = @ \cup {"file_distribution"},
                                !.errors =
                                   Append(@, "Error getting search analytics"),
                                !.pc = "done"]
    /\ UNCHANGED <<index_exists, docs, clock, call, history, started, faults,
                   run, mapping, transport, parse>>

NextOverview ==
    \/ OverviewIndexStats
    \/ OverviewUniqueDocuments
    \/ OverviewUploadTimeline
    \/ OverviewFileDistribution

SpecOverview == InitOverview /\ [][NextOverview]_vars

-----------------------------------------------------------------------------
(* Properties of the Overview page, checked under SpecOverview.            *)

\* the script run is over
OverviewEnded == ui.pc \in {"done", "aborted"}

\* C17: the three analytics aggregations are independent: when the request
\* of one of them has raised, the page has, by its end, still requested the
\* other two, and reported each of them whose own request did not raise.
C17_AggregationsIndependent ==
    OverviewEnded =>
       \A f \in ui.raised :
          \A a \in Aggregations \ {f} :
             /\ a \in ui.requested
             /\ (a \notin ui.raised => a \in ui.reported)

-----------------------------------------------------------------------------
(* The engine's answer to the query of search_documents (lines 154-178).   *)
(* Fields of type text are analysed by the standard analyzer: the text is  *)
(* split at whitespace and at full stops that do not stand between two     *)
(* letters, and lower-cased.  A bool query of should clauses only hits a   *)
(* record when at least one clause matches; its score is the sum of the    *)
(* scores of the matching clauses, each the clause's boost times the       *)
(* default (BM25, k1 = 1.2, b = 0.75) similarity of the field.  Scores are *)
(* integers: idf in thousandths, the term-frequency factor in units of     *)
(* 1/10000; field lengths are taken exactly.                               *)

UpperCase ==
    <<"A", "B", "C", "D", "E", "F", "G", "H", "I", "J", "K", "L", "M",
      "N", "O", "P", "Q", "R", "S", "T", "U", "V", "W", "X", "Y", "Z">>

LowerCase ==
    <<"a", "b", "c", "d", "e", "f", "g", "h", "i", "j", "k", "l", "m",
      "n", "o", "p", "q", "r", "s", "t", "u", "v", "w", "x", "y", "z">>

Lower(c) ==
    IF \E k \in DOMAIN UpperCase : UpperCase[k] = c
    THEN LowerCase[CHOOSE k \in DOMAIN UpperCase : UpperCase[k] = c]
    ELSE c

IsLetter(c) == ~IsSpace(c) /\ c # "."

\* character i of s belongs to a token
InToken(s, i) ==
    \/ IsLetter(s[i])
    \/ /\ s[i] = "."
       /\ 1 < i /\ i < Len(s)
       /\ IsLetter(s[i - 1]) /\ IsLetter(s[i + 1])

\* the tokens of a text, in order: the maximal runs of token characters
Analyze(s) ==
    LET starts == {i \in DOMAIN s :
                      InToken(s, i) /\ (i = 1 \/ ~InToken(s, i - 1))}
        ends == {i \in DOMAIN s :
                    InToken(s, i) /\ (i = Len(s) \/ ~InToken(s, i + 1))}
        Nth(set, k) ==
            CHOOSE i \in set : Cardinality({j \in set : j <= i}) = k
    IN  [k \in 1..Cardinality(starts) |->
            [m \in 1..(Nth(ends, k) - Nth(starts, k) + 1) |->
                Lower(s[Nth(starts, k) + m - 1])]]

\* occurrences of token t, and of the token sequence q, in a token list
Freq(tokens, t) == Cardinality({k \in DOMAIN tokens : tokens[k] = t})

PhraseFreq(tokens, q) ==
    IF q = <<>> THEN 0
    ELSE Cardinality({k \in 1..(Len(tokens) - Len(q) + 1) :
                         SubSeq(tokens, k, k + Len(q) - 1) = q})

\* a field of the collection is the list of its token lists, one per record
DocFreq(field, t) ==
    Cardinality({i \in DOMAIN field : Freq(field[i], t) > 0})

RECURSIVE SumLen(_)
SumLen(field) ==
    IF field = <<>> THEN 0 ELSE Len(Head(field)) + SumLen(Tail(field))

\* 1000 * ln(1 + (N - n + 0.5) / (n + 0.5)), N records, n of them with the term
IdfTable ==
    <<  <<288>>,
        <<693, 182>>,
        <<981, 470, 134>>,
        <<1204, 693, 357, 105>>,
        <<1386, 875, 539, 288, 87>>  >>

Idf(field, t) == IdfTable[Len(field)][DocFreq(field, t)]

\* 10000 * f / (f + k1 * (1 - b + b * dl / avgdl)), avgdl = SumLen / N
TfNorm(field, f, dl) ==
    LET S == SumLen(field)
        N == Len(field)
    IN  (f * S * 100000) \div (10 * f * S + 3 * S + 9 * dl * N)

\* a match clause: the sum over the query tokens found in the record
RECURSIVE MatchScore(_, _, _)
MatchScore(field, i, q) ==
    IF q = <<>> THEN 0
    ELSE (IF Freq(field[i], Head(q)) > 0
          THEN Idf(field, Head(q))
                  * TfNorm(field, Freq(field[i], Head(q)), Len(field[i]))
          ELSE 0)
         + MatchScore(field, i, Tail(q))

RECURSIVE SumIdf(_, _)
SumIdf(field, q) ==
    IF q = <<>> THEN 0 ELSE Idf(field, Head(q)) + SumIdf(field, Tail(q))

\* a match_phrase clause: the query tokens side by side, in order
PhraseScore(field, i, q) ==
    IF PhraseFreq(field[i], q) > 0
    THEN SumIdf(field, q)
            * TfNorm(field, PhraseFreq(field[i], q), Len(field[i]))
    ELSE 0

-----------------------------------------------------------------------------
(* search_documents (lines 151-182) and the search tab of main() (lines    *)
(* 252-273), on collections of up to MaxCorpus records as                  *)
(* index_pdf_document writes them for one-chunk documents.                 *)

\* lines 158-160: the boosts of the three should clauses
ContentBoost == 2

PhraseBoost == 3

FilenameBoost == 1

\* line 262: the sizes offered by the selectbox
ResultSizes == {5, 10, 20, 50}

Neural == <<"n", "e", "u", "r", "a", "l">>

Network == <<"n", "e", "t", "w", "o", "r", "k">>

Deep == <<"d", "e", "e", "p">>

\* the words, separated by single spaces
RECURSIVE Sentence(_)
Sentence(words) ==
    IF words = <<>> THEN <<>>
    ELSE IF Len(words) = 1 THEN Head(words)
    ELSE Head(words) \o <<" ">> \o Sentence(Tail(words))

\* the contents of the stored records
PhraseOnly == Sentence(<<Neural, Network>>)

\* n times the word "deep", each after a space
Filler(n) ==
    [i \in 1..(5 * n) |-> (<<" ">> \o Deep)[((i - 1) % 5) + 1]]

PhraseInLongText == Sentence(<<Neural, Network>>) \o Filler(100)

PhraseCapital ==
    <<"D", "e", "e", "p", " ", "N", "e", "u", "r", "a", "l", " ">>
       \o Network \o <<".">>

ScatteredSameLength == Sentence(<<Neural, Deep, Network>>)

ScatteredDense ==
    Sentence(<<Network, Network, Network, Network,
               Neural, Neural, Neural, Neural>>)

ScatteredReversed == Sentence(<<Network, Neural>>)

Unrelated == Sentence(<<Deep, Deep>>)

SearchContents ==
    {PhraseOnly, PhraseInLongText, PhraseCapital, ScatteredSameLength,
     ScatteredDense, ScatteredReversed, Unrelated}

\* the queries typed into the search box
NeuralNetworkQuery == Sentence(<<Neural, Network>>)

FileNameText ==
    [n \in FileNames |->
        IF n = "a.pdf" THEN <<"a", ".", "p", "d", "f">>
        ELSE <<"b", ".", "p", "d", "f">>]

SearchQueries ==
    {NeuralNetworkQuery,
     <<"N", "e", "u", "r", "a", "l">>,
     <<"z", "e", "b", "r", "a">>,
     FileNameText["a.pdf"]}

\* records of a behaviour's collection
MaxCorpus == 2

\* the record index_pdf_document writes, at time t, for a document that
\* fits in one chunk
SearchRecord(name, text, t) ==
    LET chunk == chunk_text(text, DefaultChunkSize, DefaultOverlap)[1]
    IN  [filename |-> name,
         content |-> chunk.text,
         chunk_id |-> chunk.chunk_id,
         start_position |-> chunk.start_position,
         end_position |-> chunk.end_position,
         upload_date |-> t,
         file_hash |-> md5_hexdigest(text)]

SearchRecords ==
    [n \in FileNames, c \in SearchContents, t \in 1..(MaxCorpus + 1) |->
        SearchRecord(n, c, t)]

\* record k is uploaded as a.pdf when k is odd and as b.pdf otherwise
NameAt(k) == IF k % 2 = 1 THEN "a.pdf" ELSE "b.pdf"

SearchCorpora ==
    UNION {{[k \in 1..n |-> SearchRecords[NameAt(k), cs[k], k]] :
               cs \in [1..n -> SearchContents]} : n \in 0..MaxCorpus}

\* the analysed fields of the stored records
AnalyzedContent == [c \in SearchContents |-> Analyze(c)]

AnalyzedName == [n \in FileNames |-> Analyze(FileNameText[n])]

ContentField(stored) ==
    [i \in DOMAIN stored |-> AnalyzedContent[stored[i].content]]

NameField(stored) ==
    [i \in DOMAIN stored |-> AnalyzedName[stored[i].filename]]

\* mutant of Score: the query without its match_phrase clause
Score_NoPhraseClause(stored, i, q) ==
    ContentBoost * MatchScore(ContentField(stored), i, q)
       + FilenameBoost * MatchScore(NameField(stored), i, q)

\* lines 155-162: the score of record i for the analysed query q
Score(stored, i, q) ==
    ContentBoost * MatchScore(ContentField(stored), i, q)
       + PhraseBoost * PhraseScore(ContentField(stored), i, q)
       + FilenameBoost * MatchScore(NameField(stored), i, q)

\* lines 172-178: response['hits'] of the engine for the query: the records
\* with a matching clause by descending score (equal scores in the order
\* stored), the first `size` of them listed
EngineSearch(stored, query, size) ==
    LET q == Analyze(query)
        score == [i \in DOMAIN stored |-> Score(stored, i, q)]
        matching == {i \in DOMAIN stored : score[i] > 0}
        Before(i, j) == score[i] > score[j] \/ (score[i] = score[j] /\ i < j)
        rank == [i \in matching |->
                    1 + Cardinality({j \in matching : Before(j, i)})]
        total == Cardinality(matching)
    IN  [total |-> [value |-> total, relation |-> "eq"],
         hits |-> [k \in 1..Min(size, total) |->
                     LET i == CHOOSE i \in matching : rank[i] = k
                     IN  [_id |-> i, _score |-> score[i],
                          filename |-> stored[i].filename]]]

\* mutant of search_documents: an exception is answered with an empty result
search_documents_EmptyOnError(stored, query, size, outcome) ==
    IF outcome = "ok" THEN EngineSearch(stored, query, size)
    ELSE [total |-> [value |-> 0, relation |-> "eq"], hits |-> <<>>]

\* lines 151-182: response['hits'], or {"error": str(e)} when client.search
\* raises
search_documents(stored, query, size, outcome) ==
    IF outcome = "ok" THEN EngineSearch(stored, query, size)
    ELSE [error |-> "search failed"]

\* lines 268-273: what the search tab shows for the results
SearchShown(results) ==
    IF "error" \in DOMAIN results THEN "Search error"
    ELSE IF results.total.value = 0 THEN "No results found"
    ELSE "Found results"

\* the search tab before any query
SearchStart ==
    [pc |-> "search", search_query |-> <<>>, num_results |-> 10,
     outcome |-> "none", results |-> [total |-> [value |-> 0]],
     shown |-> "none"]

InitSearch ==
    /\ index_exists \in BOOLEAN
    /\ docs \in SearchCorpora
    /\ (~index_exists => docs = <<>>)
    /\ clock = 0
    /\ call = [p \in Clients |-> IdleCall]
    /\ history = <<>>
    /\ started = 0
    /\ faults = 0
    /\ run = NoRun
    /\ ui = SearchStart
    /\ mapping = (IF index_exists THEN WriterMapping ELSE NoMapping)
    /\ transport = NoTransport
    /\ parse = NoParse

\* lines 264-273: the script run with a non-empty query in the search box
SearchSubmit ==
    /\ ui.pc = "search"
    /\ \E search_query \in SearchQueries, num_results \in ResultSizes,
          outcome \in RequestOutcomes :
          LET results ==
                 search_documents(docs, search_query, num_results, outcome)
          IN  /\ search_query # <<>>
              /\ ui' = [ui EXCEPT !.pc = "shown",
                                  !.search_query = search_query,
                                  !.num_results = num_results,
                                  !.outcome = outcome,
                                  !.results = results,
                                  !.shown = SearchShown(results)]
    /\ UNCHANGED <<index_exists, docs, clock, call, history, started, faults,
                   run, mapping, transport, parse>>

NextSearch == SearchSubmit

SpecSearch == InitSearch /\ [][NextSearch]_vars

-----------------------------------------------------------------------------
(* Properties of the search tab, checked under SpecSearch.                 *)

\* no token of the query occurs in the content or the file name of a record
NoMatch(stored, query) ==
    LET q == Analyze(query)
    IN  \A i \in DOMAIN stored :
           \A k \in DOMAIN q :
              /\ Freq(AnalyzedContent[stored[i].content], q[k]) = 0
              /\ Freq(AnalyzedName[stored[i].filename], q[k]) = 0

\* C18: search reports its outcomes distinctly: an answered query without
\* matches gives an empty hit list with total 0 and no error, and is shown
\* as "no results"; a query that raised gives an error and is shown as an
\* error; neither is ever shown as the other.
C18_SearchOutcomesDistinct ==
    ui.outcome # "none" =>
       /\ (ui.outcome = "ok" /\ NoMatch(docs, ui.search_query)) =>
             /\ "error" \notin DOMAIN ui.results
             /\ ui.results.hits = <<>>
             /\ ui.results.total.value = 0
             /\ ui.shown = "No results found"
       /\ ui.outcome = "raises" =>
             /\ DOMAIN ui.results = {"error"}
             /\ ui.shown = "Search error"
       /\ ui.shown = "Search error" => ui.outcome = "raises"
       /\ ui.shown = "No results found" =>
             (ui.outcome = "ok" /\ NoMatch(docs, ui.search_query))

\* an answered query matched none of the two stored records
C18_Witness ==
    /\ ui.outcome = "ok"
    /\ Len(docs) = 2
    /\ NoMatch(docs, ui.search_query)
    /\ ui.shown = "No results found"

\* record i holds the query as a phrase; record i holds every token of the
\* query but never the phrase
HasPhrase(stored, i, query) ==
    PhraseFreq(AnalyzedContent[stored[i].content], Analyze(query)) > 0

ScatteredOnly(stored, i, query) ==
    /\ PhraseFreq(AnalyzedContent[stored[i].content], Analyze(query)) = 0
    /\ \A k \in DOMAIN Analyze(query) :
          Freq(AnalyzedContent[stored[i].content], Analyze(query)[k]) > 0

\* records i and j have as many tokens, and each token of the query as often
SameTermStats(stored, i, j, query) ==
    /\ Len(AnalyzedContent[stored[i].content]) =
          Len(AnalyzedContent[stored[j].content])
    /\ \A k \in DOMAIN Analyze(query) :
          Freq(AnalyzedContent[stored[i].content], Analyze(query)[k]) =
             Freq(AnalyzedContent[stored[j].content], Analyze(query)[k])

\* the place of record i in the hit list (0: not listed), and its score
HitPlace(i) ==
    IF \E k \in DOMAIN ui.results.hits : ui.results.hits[k]._id = i
    THEN CHOOSE k \in DOMAIN ui.results.hits : ui.results.hits[k]._id = i
    ELSE 0

HitsByDescendingScore ==
    \A k \in 1..(Len(ui.results.hits) - 1) :
       ui.results.hits[k]._score >= ui.results.hits[k + 1]._score

AnsweredNeuralNetwork ==
    ui.outcome = "ok" /\ ui.search_query = NeuralNetworkQuery

\* C19, as claimed: the hits for the query "neural network" come by
\* descending score, and a record holding the exact phrase is listed
\* strictly before a record holding "neural" and "network" only scattered.
C19_PhraseRanksHigher ==
    AnsweredNeuralNetwork =>
       /\ HitsByDescendingScore
       /\ \A i, j \in DOMAIN docs :
             (HasPhrase(docs, i, NeuralNetworkQuery)
                 /\ ScatteredOnly(docs, j, NeuralNetworkQuery)) =>
                (0 < HitPlace(i) /\ HitPlace(i) < HitPlace(j))

\* C19, amended: the same for a scattered record that has as many tokens as
\* the phrase record and holds "neural" and "network" as often; then the
\* phrase record's score is strictly higher.
C19_PhraseRanksHigherSameStats ==
    AnsweredNeuralNetwork =>
       /\ HitsByDescendingScore
       /\ \A i, j \in DOMAIN docs :
             (HasPhrase(docs, i, NeuralNetworkQuery)
                 /\ ScatteredOnly(docs, j, NeuralNetworkQuery)
                 /\ SameTermStats(docs, i, j, NeuralNetworkQuery)) =>
                /\ 0 < HitPlace(i) /\ HitPlace(i) < HitPlace(j)
                /\ ui.results.hits[HitPlace(i)]._score >
                      ui.results.hits[HitPlace(j)]._score

\* the scattered record was stored first, the phrase record of the same
\* length second, and the phrase record is listed first
C19_Witness ==
    /\ AnsweredNeuralNetwork
    /\ Len(docs) = 2
    /\ ScatteredOnly(docs, 1, NeuralNetworkQuery)
    /\ HasPhrase(docs, 2, NeuralNetworkQuery)
    /\ SameTermStats(docs, 1, 2, NeuralNetworkQuery)
    /\ HitPlace(2) = 1 /\ HitPlace(1) = 2

-----------------------------------------------------------------------------
(* The create step of index_pdf_document, checked under SpecUpload, where  *)
(* the collection found at start has the writer's schema or another one.   *)

\* a step in which session p's create request (line 111) returned normally
CreateReturned(p) ==
    /\ call[p].pc = "create"
    /\ call'[p] # call[p]
    /\ faults' = faults

\* C23: the create step is idempotent: on a collection that already exists
\* the create request is not an error and leaves the collection's schema
\* and records as they are, and the call goes on to the dedup query in the
\* same state as after creating the collection
C23_CreateIdempotent ==
    [][\A p \in Clients :
          CreateReturned(p) =>
              /\ call'[p] = [call[p] EXCEPT !.pc = "search"]
              /\ history' = history
              /\ docs' = docs
              /\ index_exists'
              /\ (index_exists => mapping' = mapping)]_vars

\* a second upload has passed the create step on a collection that holds
\* records and has a schema other than the writer's
C23_Witness ==
    /\ call["s1"].pc = "search"
    /\ Len(docs) > 0
    /\ mapping = DynamicMapping
    /\ faults = 0

-----------------------------------------------------------------------------
(* The source distribution of the Overview page, under SpecOverview.       *)

\* the file names of the stored records
StoredNames == {docs[i].filename : i \in DOMAIN docs}

\* the number of stored chunk records of file name n
StoredChunks(n) == Cardinality({i \in DOMAIN docs : docs[i].filename = n})

\* the page has shown the source distribution (chart or "no data" note)
DistributionShown ==
    /\ ui.pc = "done"
    /\ "file_distribution" \in ui.reported

\* C22: on a collection written by the index writer with at most TermsSize
\* distinct file names, the source distribution the page shows has exactly
\* one entry per file name, with the number of its chunk records
C22_DistributionExact ==
    (DistributionShown /\ Cardinality(StoredNames) <= TermsSize) =>
       {<<ui.distribution[r].name, ui.distribution[r].value>> :
           r \in DOMAIN ui.distribution}
          = {<<n, StoredChunks(n)>> : n \in StoredNames}

-----------------------------------------------------------------------------
(* The engine client of get_opensearch_client (lines 35-45) under          *)
(* index_pdf_document.  The client is built with timeout=30,               *)
(* max_retries=3 and retry_on_timeout=True: when a request gets no         *)
(* response within the timeout, the client's transport sends it again, up  *)
(* to max_retries times, before it raises to index_pdf_document.  The      *)
(* engine may have applied a request whose response did not arrive.  Only  *)
(* timeouts of chunk writes are modelled; a create or a dedup query sent   *)
(* twice changes nothing.                                                  *)

\* line 43
MaxRetries == 3

\* the number of times the write of call c's next chunk has timed out
TimedOut(c) ==
    IF transport.seq = c.seq /\ transport.chunk_id = Len(c.written)
    THEN transport.timeouts
    ELSE 0

\* line 142 inside the client: the write sent for the next chunk gets no
\* response in time, whether or not the engine has stored the record.  The
\* transport sends the same document again, or, after max_retries resends,
\* raises ConnectionTimeout, which lines 148-149 turn into an error result.
WriteTimesOut(p) ==
    /\ call[p].pc = "write"
    /\ LET c == call[p]
           k == Len(c.written) + 1
           n == TimedOut(c)
       IN  /\ n <= MaxRetries
           /\ \E applied \in BOOLEAN :
                 docs' = IF applied
                         THEN EngineIndex(docs, ChunkDoc(c, c.chunks[k])).docs
                         ELSE docs
           /\ transport' = [seq |-> c.seq, chunk_id |-> k - 1,
                            timeouts |-> n + 1]
           /\ IF n < MaxRetries
              THEN UNCHANGED <<call, history, faults>>
              ELSE /\ faults' = faults + 1
                   /\ Return(p, [c EXCEPT !.raised_at = "write"],
                             ErrorResult("ConnectionTimeout"))
    /\ UNCHANGED <<index_exists, clock, started, run, ui, mapping, parse>>

\* one session, making its calls one after the other
NextRetry ==
    \E p \in {"s1"} :
        \/ Start(p)
        \/ CreateIndex(p)
        \/ DedupSearch(p)
        \/ IndexChunk(p)
        \/ WriteTimesOut(p)
        \/ EngineRaises(p)

SpecRetry == Init /\ [][NextRetry]_vars

\* stored records i and j are copies of one chunk of one document
SameChunk(i, j) ==
    /\ docs[i].file_hash = docs[j].file_hash
    /\ docs[i].chunk_id = docs[j].chunk_id

\* C21: engine errors are surfaced and never silently retried: each chunk
\* write of an index_pdf_document call reaches the engine at most once, so
\* no chunk of a document is stored twice, whatever write failed or timed
\* out (one session, its calls one after the other)
C21_NoSecondCopy ==
    \A i \in DOMAIN docs : \A j \in DOMAIN docs : SameChunk(i, j) => i = j

-----------------------------------------------------------------------------
(* The boundary rule of chunk_text, checked under SpecChunkWide.           *)

\* the text positions inside the full window at `start` that hold a full
\* stop or whitespace
BoundariesIn(text, chunk_size, start) ==
    {p \in start..(start + chunk_size - 1) :
        p < Len(text) /\ (text[p + 1] = "." \/ IsSpace(text[p + 1]))}

\* the end the boundary rule gives the window at `start`
RuleEnd(text, chunk_size, start) ==
    LET end == start + chunk_size
        marks == BoundariesIn(text, chunk_size, start)
        boundary == CHOOSE p \in marks : \A q \in marks : q <= p
    IN  IF end < Len(text) /\ marks # {}
           /\ 2 * boundary > 2 * start + chunk_size
        THEN boundary + 1
        ELSE end

\* C24: for chunk_size > 0 and 0 <= overlap < chunk_size, every window, at
\* any start offset, ends where the boundary rule says: a window whose full
\* end lies before the end of the text ends one past its last full stop or
\* whitespace when that position lies past start + chunk_size / 2, and
\* keeps its full length otherwise; a window that reaches the end of the
\* text is not adjusted
C24_BoundaryRule ==
    ValidConfig(run.chunk_size, run.overlap) =>
       \A i \in DOMAIN run.chunks :
          run.chunks[i].start_position >= 0 =>
             run.chunks[i].end_position
                = RuleEnd(run.text, run.chunk_size,
                          run.chunks[i].start_position)

-----------------------------------------------------------------------------
(* The last window of chunk_text, checked under SpecChunk.                 *)

\* the part of the text that chunk c holds: [start_position, end_position)
\* cut at the end of the text
TextRange(c) ==
    c.start_position .. (Min(c.end_position, Len(run.text)) - 1)

\* C27: for chunk_size > 0, 0 <= overlap < chunk_size and a text with
\* 0 < len(text) <= chunk_size, chunk_text returns exactly one chunk, which
\* covers the whole text; and in general no chunk is returned after a
\* window that reached the end of the text, so no chunk's range lies
\* wholly inside the range of the chunk before it
C27_OneChunkForShortText ==
    run.pc = "done" =>
       /\ (0 < Len(run.text) /\ Len(run.text) <= run.chunk_size) =>
             /\ Len(run.chunks) = 1
             /\ TextRange(run.chunks[1]) = 0 .. (Len(run.text) - 1)
       /\ \A i \in 2..Len(run.chunks) :
             ~(TextRange(run.chunks[i]) \subseteq TextRange(run.chunks[i - 1]))

-----------------------------------------------------------------------------
(* chunk_text on texts longer than a window, with its default parameters   *)
(* (chunk_size=1000, overlap=200, line 62) and with chunk_size=500,        *)
(* overlap=50: SpecChunkLong runs the loop of SpecChunk on these inputs.   *)

\* "A. " * k + "B" * n
ScenarioText(k, n) ==
    [i \in 1..(3 * k + n) |->
        IF i <= 3 * k THEN <<"A", ".", " ">>[((i - 1) % 3) + 1] ELSE "B"]

\* largest number of "A. " sentences in front of a text
MaxSentences == 10

\* "x" * n with a full stop or a space at each of the offsets in marks
MarkedText(n, marks) ==
    [i \in 1..n |->
        IF (i - 1) \in marks
        THEN (IF (i - 1) % 2 = 0 THEN "." ELSE " ")
        ELSE "x"]

\* largest number of boundary characters in a marked text
MaxMarks == 2

\* the sentences followed by no, 450 or 2000 "B"; and marked texts of
\* lengths around one, two and three default windows, the marks at offsets
\* before and after the middle of the first windows
LongTexts ==
    LET lengths == {0, 1, 800, 801, 1000, 1001, 1303, 1801, 2403}
        offsets == {100, 400, 500, 501, 700, 999, 1000, 1105, 1200, 1900}
    IN  {ScenarioText(k, n) : k \in 0..MaxSentences, n \in {0, 450, 2000}}
        \cup {MarkedText(n, marks) :
                 n \in lengths,
                 marks \in {m \in SUBSET offsets :
                               Cardinality(m) <= MaxMarks}}

\* the call chunk_text(text, 500, 50)
ScenarioConfig == [chunk_size |-> 500, overlap |-> 50]

InitChunkLong ==
    /\ index_exists = FALSE
    /\ docs = <<>>
    /\ clock = 0
    /\ call = [p \in Clients |-> IdleCall]
    /\ history = <<>>
    /\ started = 0
    /\ faults = 0
    /\ ui = NoUi
    /\ mapping = NoMapping
    /\ transport = NoTransport
    /\ parse = NoParse
    /\ \E text \in LongTexts,
          config \in {[chunk_size |-> DefaultChunkSize,
                       overlap |-> DefaultOverlap], ScenarioConfig} :
          run = [pc |-> "loop", text |-> text,
                 chunk_size |-> config.chunk_size,
                 overlap |-> config.overlap, start |-> 0, chunks |-> <<>>,
                 seen |-> {}]

\* the loop of chunk_text; a pass is only taken from a start offset that
\* has not been processed before
NextChunkLong == ChunkReturn \/ ChunkPass

SpecChunkLong == InitChunkLong /\ [][NextChunkLong]_vars

\* the run is chunk_text(text) with the default parameters
DefaultRun ==
    /\ run.pc # "off"
    /\ run.chunk_size = DefaultChunkSize
    /\ run.overlap = DefaultOverlap

\* C26: with the defaults (chunk_size=1000, overlap=200) every pass of the
\* loop strictly increases start and start is never negative, shrunk
\* window or not, so the loop never comes back to an offset, ends after at
\* most len(text) passes, and index_pdf_document has finitely many chunks
\* to write
C26_StartAdvances ==
    DefaultRun =>
       /\ run.start >= 0
       /\ \A s \in run.seen : 0 <= s /\ s < run.start
       /\ \A i \in DOMAIN run.chunks :
             \A j \in DOMAIN run.chunks :
                i < j => run.chunks[i].start_position
                            < run.chunks[j].start_position
       /\ Len(run.chunks) <= Len(run.text)

\* a default run has ended with three or more chunks, a window after the
\* first one shrunk to a boundary
C26_Witness ==
    /\ DefaultRun
    /\ run.pc = "done"
    /\ Len(run.chunks) >= 3
    /\ \E i \in 2..Len(run.chunks) :
          run.chunks[i].end_position
             < run.chunks[i].start_position + DefaultChunkSize

\* "A. " * 10 + "B" * 2000
LiteralText == ScenarioText(10, 2000)

\* the run is chunk_text("A. " * 10 + "B" * 2000, 500, 50)
LiteralRun ==
    /\ run.pc # "off"
    /\ run.text = LiteralText
    /\ run.chunk_size = ScenarioConfig.chunk_size
    /\ run.overlap = ScenarioConfig.overlap

\* C25: for text = "A. " * 10 + "B" * 2000, chunk_size=500, overlap=50 the
\* boundaries (offsets 0..29) are not past the first window's midpoint 250,
\* no window is shrunk, the windows start at 0, 450, 900, 1350, 1800 and
\* exactly 5 chunks are returned, with chunk_id 0..4
C25_LiteralScenario ==
    LiteralRun =>
       /\ \A p \in BoundariesIn(run.text, run.chunk_size, 0) :
             p <= 29 /\ p <= 250
       /\ \A i \in DOMAIN run.chunks :
             /\ run.chunks[i].chunk_id = i - 1
             /\ run.chunks[i].start_position = 450 * (i - 1)
             /\ run.chunks[i].end_position = 450 * (i - 1) + 500
       /\ run.start \notin run.seen
       /\ run.pc = "done" =>
             /\ Len(run.chunks) = 5
             /\ <<0, 450, 900, 1350, 1800>>
                   = [i \in 1..5 |-> run.chunks[i].start_position]

\* the literal call has returned
C25_Witness ==
    /\ LiteralRun
    /\ run.pc = "done"
    /\ Len(run.chunks) = 5

-----------------------------------------------------------------------------
(* LlamaParseRESTClient.wait_for_completion of src/app/llama_parse.py      *)
(* (lines 400-420) with check_job_status (lines 345-356).  Time is         *)
(* time.time() in seconds, counted from the call; a status request takes   *)
(* 0 or 1 second and time.sleep(poll_interval) its interval.               *)

\* line 401: max_wait_time: int = 300, poll_interval: int = 5
DefaultMaxWaitTime == 300

DefaultPollInterval == 5

\* largest max_wait_time and poll_interval of the other calls
MaxWait == 6

MaxInterval == 2

WaitConfigs ==
    {[max_wait_time |-> DefaultMaxWaitTime,
      poll_interval |-> DefaultPollInterval]}
    \cup {[max_wait_time |-> m, poll_interval |-> p] :
             m \in 0..MaxWait, p \in 1..MaxInterval}

\* what one check_job_status call can give: a 200 response with a status
\* ("PENDING" stands for every status other than SUCCESS and ERROR), or,
\* on any other response, the exception of line 351 ("failed")
PollAnswers == {"PENDING", "SUCCESS", "ERROR", "failed"}

\* mutant of AfterPoll: an ERROR status is polled again
AfterPoll_ErrorIsPending(answer) ==
    CASE answer = "SUCCESS" -> [pc |-> "returned", exception |-> "none"]
      [] answer = "failed" ->
            [pc |-> "raised", exception |-> "Status check failed"]
      [] OTHER -> [pc |-> "sleep", exception |-> "none"]

\* lines 407-416: what the loop body does with the answer of its poll
AfterPoll(answer) ==
    CASE answer = "SUCCESS" -> [pc |-> "returned", exception |-> "none"]
      [] answer = "ERROR" ->
            [pc |-> "raised", exception |-> "Parsing failed"]
      [] answer = "failed" ->
            [pc |-> "raised", exception |-> "Status check failed"]
      [] OTHER -> [pc |-> "sleep", exception |-> "none"]

\* line 403: start_time = time.time()
\*   polls   number of polls made
\*   last    the answer of the last poll
\*   finals  number of polls answered SUCCESS or ERROR
InitWait ==
    /\ index_exists = FALSE
    /\ docs = <<>>
    /\ clock = 0
    /\ call = [p \in Clients |-> IdleCall]
    /\ history = <<>>
    /\ started = 0
    /\ faults = 0
    /\ run = NoRun
    /\ ui = NoUi
    /\ mapping = NoMapping
    /\ transport = NoTransport
    /\ \E config \in WaitConfigs :
          parse = [pc |-> "test", start_time |-> 0, now |-> 0,
                   max_wait_time |-> config.max_wait_time,
                   poll_interval |-> config.poll_interval,
                   polls |-> 0, last |-> "none", finals |-> 0,
                   exception |-> "none"]

\* lines 405-416: the loop condition holds and the status is polled
WaitPoll ==
    /\ parse.pc = "test"
    /\ parse.now - parse.start_time < parse.max_wait_time
    /\ \E answer \in PollAnswers, seconds \in {0, 1} :
          parse' = [parse EXCEPT
                      !.pc = AfterPoll(answer).pc,
                      !.exception = AfterPoll(answer).exception,
                      !.now = @ + seconds,
                      !.polls = @ + 1,
                      !.last = answer,
                      !.finals = IF answer \in {"SUCCESS", "ERROR"}
                                 THEN @ + 1 ELSE @]
    /\ UNCHANGED <<index_exists, docs, clock, call, history, started, faults,
                   run, ui, mapping, transport>>

\* line 416: time.sleep(poll_interval)
WaitSleep ==
    /\ parse.pc = "sleep"
    /\ parse' = [parse EXCEPT !.pc = "test",
                              !.now = @ + parse.poll_interval]
    /\ UNCHANGED <<index_exists, docs, clock, call, history, started, faults,
                   run, ui, mapping, transport>>

\* lines 405 and 418-420: the loop condition fails, TimeoutError
WaitTimeout ==
    /\ parse.pc = "test"
    /\ ~(parse.now - parse.start_time < parse.max_wait_time)
    /\ parse' = [parse EXCEPT !.pc = "raised", !.exception = "TimeoutError"]
    /\ UNCHANGED <<index_exists, docs, clock, call, history, started, faults,
                   run, ui, mapping, transport>>

NextWait == WaitPoll \/ WaitSleep \/ WaitTimeout

\* the method runs on its caller's thread: whenever it can take its next
\* step it does, every request and every sleep returning
SpecWait == InitWait /\ [][NextWait]_vars /\ WF_vars(NextWait)

\* wait_for_completion has returned or raised
WaitEnded == parse.pc \in {"returned", "raised"}

\* no poll was made after one answered SUCCESS or ERROR
NoPollAfterFinal ==
    /\ parse.finals <= 1
    /\ (parse.finals = 1 => parse.last \in {"SUCCESS", "ERROR"} /\ WaitEnded)

\* the outcomes: a status returned after a poll reported SUCCESS, an
\* exception after a poll reported ERROR, TimeoutError once max_wait_time
\* has elapsed
ReturnedSuccess == parse.pc = "returned" /\ parse.last = "SUCCESS"

RaisedOnError ==
    /\ parse.pc = "raised"
    /\ parse.exception = "Parsing failed"
    /\ parse.last = "ERROR"

RaisedTimeout ==
    /\ parse.pc = "raised"
    /\ parse.exception = "TimeoutError"
    /\ parse.now - parse.start_time >= parse.max_wait_time
    /\ parse.last \in {"none", "PENDING"}

\* and the exception of a status request that was not answered with 200
RaisedCheckFailed ==
    /\ parse.pc = "raised"
    /\ parse.exception = "Status check failed"
    /\ parse.last = "failed"

\* C29 as stated: wait_for_completion ends in one of exactly three
\* outcomes: it returns a status only if a poll reported SUCCESS, raises as
\* soon as a poll reports ERROR, and otherwise raises TimeoutError once
\* max_wait_time has elapsed
C29_ThreeOutcomes ==
    WaitEnded => ReturnedSuccess \/ RaisedOnError \/ RaisedTimeout

\* C29: wait_for_completion polls sequentially and ends in one of four
\* outcomes: it returns a status only if a poll reported SUCCESS, raises as
\* soon as a poll reports ERROR, raises as soon as a status request fails,
\* and otherwise raises TimeoutError once max_wait_time has elapsed.  It
\* never returns another status, never polls again after SUCCESS or ERROR,
\* and, time advancing, always ends in one of these outcomes.
C29_FourOutcomes ==
    /\ [](WaitEnded =>
             \/ ReturnedSuccess
             \/ RaisedOnError
             \/ RaisedTimeout
             \/ RaisedCheckFailed)
    /\ []NoPollAfterFinal
    /\ <>WaitEnded

\* a wait with the default parameters has raised because a status request
\* failed, after polls that found the job pending
C29_Witness ==
    /\ RaisedCheckFailed
    /\ parse.max_wait_time = DefaultMaxWaitTime
    /\ parse.polls >= 3
    /\ parse.now - parse.start_time < parse.max_wait_time

-----------------------------------------------------------------------------
(* LlamaParseRESTClient of src/app/llama_parse.py: extract_from_file       *)
(* (lines 422-502), extract_from_multiple_files (504-543) with             *)
(* _process_job_batch (545-605), and save_results (607-657) called on      *)
(* what they returned.  One step per request to the service; a job is      *)
(* waited for and its result fetched in one step.  Result dicts are        *)
(* records with the keys save_results reads; a missing key is a missing    *)
(* field.                                                                  *)

\* the files: two supported types with the same stem, one unsupported
ParseFiles == {"a.pdf", "a.txt", "b.md"}

\* Path(name).stem
Stem(name) == IF name = "b.md" THEN "b" ELSE "a"

\* lines 309-320
supported_extensions ==
    {".pdf", ".docx", ".doc", ".pptx", ".xlsx", ".html", ".txt", ".jpeg",
     ".jpg", ".png"}

\* lines 300-343: upload_and_parse returns a job id, or raises: for a
\* missing file, an unsupported type, or a response other than 200
UploadOutcomes(file_path) ==
    IF (CASE file_path = "a.pdf" -> ".pdf" [] file_path = "a.txt" -> ".txt"
          [] OTHER -> ".md") \in supported_extensions
    THEN {"ok", "Upload failed"}
    ELSE {"Unsupported file type"}

\* wait_for_completion and get_result_*: the job's content, or an exception
JobOutcomes == {"SUCCESS", "Parsing failed", "Result retrieval failed"}

\* longest list of file paths, largest max_concurrent
MaxFiles == 3

MaxConcurrent == 2

RECURSIVE PathLists(_)
PathLists(n) ==
    IF n = 0 THEN {<<>>}
    ELSE LET shorter == PathLists(n - 1)
         IN  shorter \cup {Append(l, f) : l \in {s \in shorter :
                                                   Len(s) = n - 1},
                                          f \in ParseFiles}

\* lines 460-467 and 568-575: str for markdown and text, dict for json
ContentOf(job_id, result_type) ==
    [type |-> IF result_type = "json" THEN "dict" ELSE "str",
     job_id |-> job_id]

\* lines 575-590: the result of a job of a batch
BatchResult(job_info, result_type) ==
    [file_path |-> job_info.file_path,
     file_name |-> job_info.file_path,
     job_id |-> job_info.job_id,
     success |-> TRUE,
     status |-> "SUCCESS",
     content |-> ContentOf(job_info.job_id, result_type)]

\* lines 441-476: the result of extract_from_file
FileResult(file_path, job_id, result_type) ==
    [file_path |-> file_path,
     file_name |-> file_path,
     job_id |-> job_id,
     config |-> [result_type |-> result_type],
     success |-> TRUE,
     status |-> "SUCCESS",
     content |-> ContentOf(job_id, result_type),
     error |-> PyNone]

\* lines 441-461: the result of extract_from_file(wait_for_completion=False)
PendingResult(file_path, job_id, result_type) ==
    [file_path |-> file_path,
     file_name |-> file_path,
     job_id |-> job_id,
     config |-> [result_type |-> result_type],
     success |-> FALSE,
     status |-> "PENDING",
     content |-> PyNone,
     error |-> PyNone]

\* lines 493-502, 530-540 and 595-603: the entry of a failed file
FailureEntry(file_path, error) ==
    [file_path |-> file_path,
     file_name |-> file_path,
     success |-> FALSE,
     error |-> error,
     content |-> PyNone]

\* lines 626-657: what save_results does with a successful result: the
\* suffix of the file it writes, or the KeyError of result["config"]
SaveTarget(result, format_type) ==
    IF format_type = "json"
       \/ (format_type = "original" /\ result.content.type = "dict")
    THEN [raises |-> "none", suffix |-> ".json"]
    ELSE IF format_type = "markdown"
    THEN [raises |-> "none", suffix |-> ".md"]
    ELSE IF format_type = "original"
    THEN (IF "config" \notin DOMAIN result
          THEN [raises |-> "KeyError", suffix |-> "none"]
          ELSE IF result.config.result_type = "markdown"
          THEN [raises |-> "none", suffix |-> ".md"]
          ELSE [raises |-> "none", suffix |-> ".txt"])
    ELSE [raises |-> "none", suffix |-> ".txt"]

\* a call of extract_from_multiple_files or of extract_from_file
\*   i            index of the for loop (line 516)
\*   batch        the results list of _process_job_batch, job its loop
\*   uploaded, waited   indices whose upload returned a job id, and whose
\*                job was waited for (bookkeeping for the properties)
\*   writes       the files save_results has written, k its loop index
ExtractStart(mode, file_paths, max_concurrent, result_type, wait) ==
    [pc |-> "upload", mode |-> mode, file_paths |-> file_paths,
     max_concurrent |-> max_concurrent, result_type |-> result_type,
     wait_for_completion |-> wait,
     i |-> 0, active_jobs |-> <<>>, batch |-> <<>>, job |-> 0,
     results |-> <<>>, uploaded |-> {}, waited |-> {},
     format_type |-> "none", k |-> 0, writes |-> <<>>,
     exception |-> "none"]

InitExtract ==
    /\ index_exists = FALSE
    /\ docs = <<>>
    /\ clock = 0
    /\ call = [p \in Clients |-> IdleCall]
    /\ history = <<>>
    /\ started = 0
    /\ faults = 0
    /\ run = NoRun
    /\ ui = NoUi
    /\ mapping = NoMapping
    /\ transport = NoTransport
    /\ \E result_type \in {"text", "markdown", "json"} :
          \/ \E file_paths \in PathLists(MaxFiles),
                max_concurrent \in 1..MaxConcurrent :
                parse = ExtractStart("files", file_paths, max_concurrent,
                                     result_type, TRUE)
          \/ \E file_path \in ParseFiles, wait \in BOOLEAN :
                parse = ExtractStart("file", <<file_path>>, 1, result_type,
                                     wait)

\* lines 516-540: one pass of the for loop up to the batch: the upload of
\* file i raises and its failure entry is appended, or it returns a job id
\* and the job joins active_jobs, which are processed when max_concurrent
\* are active or the file is the last one
ExtractUpload ==
    /\ parse.pc = "upload"
    /\ parse.mode = "files"
    /\ parse.i < Len(parse.file_paths)
    /\ LET file_path == parse.file_paths[parse.i + 1]
       IN  \E outcome \in UploadOutcomes(file_path) :
              IF outcome = "ok"
              THEN LET active == Append(parse.active_jobs,
                                        [job_id |-> parse.i + 1,
                                         file_path |-> file_path,
                                         index |-> parse.i])
                   IN  parse' =
                          [parse EXCEPT
                             !.active_jobs = active,
                             !.uploaded = @ \cup {parse.i},
                             !.pc = IF Len(active) >= parse.max_concurrent
                                       \/ parse.i = Len(parse.file_paths) - 1
                                    THEN "batch" ELSE "upload",
                             !.job = 1,
                             !.i = IF Len(active) >= parse.max_concurrent
                                      \/ parse.i = Len(parse.file_paths) - 1
                                   THEN @ ELSE @ + 1]
              ELSE parse' =
                      [parse EXCEPT
                         !.results =
                            Append(@, FailureEntry(file_path, outcome)),
                         !.i = @ + 1]
    /\ UNCHANGED <<index_exists, docs, clock, call, history, started, faults,
                   run, ui, mapping, transport>>

\* lines 551-605 and 525-527: one pass of the loop of _process_job_batch;
\* after the last job the batch results are added to results, active_jobs
\* is emptied and the for loop goes on
ExtractJob ==
    /\ parse.pc = "batch"
    /\ LET job_info == parse.active_jobs[parse.job]
       IN  \E outcome \in JobOutcomes :
              LET entry == IF outcome = "SUCCESS"
                           THEN BatchResult(job_info, parse.result_type)
                           ELSE FailureEntry(job_info.file_path, outcome)
                  batch == Append(parse.batch, entry)
              IN  parse' =
                     IF parse.job = Len(parse.active_jobs)
                     THEN [parse EXCEPT
                             !.waited = @ \cup {job_info.index},
                             !.results = @ \o batch,
                             !.batch = <<>>,
                             !.active_jobs = <<>>,
                             !.job = 0,
                             !.i = @ + 1,
                             !.pc = "upload"]
                     ELSE [parse EXCEPT
                             !.waited = @ \cup {job_info.index},
                             !.batch = batch,
                             !.job = @ + 1]
    /\ UNCHANGED <<index_exists, docs, clock, call, history, started, faults,
                   run, ui, mapping, transport>>

\* line 543: the for loop is over, results is returned
ExtractReturn ==
    /\ parse.pc = "upload"
    /\ parse.mode = "files"
    /\ parse.i = Len(parse.file_paths)
    /\ parse' = [parse EXCEPT !.pc = "returned"]
    /\ UNCHANGED <<index_exists, docs, clock, call, history, started, faults,
                   run, ui, mapping, transport>>

\* lines 435-461 and 493-502: extract_from_file uploads the file; it
\* returns the failure entry when that raises and the pending result when
\* it is not to wait
ExtractFileUpload ==
    /\ parse.pc = "upload"
    /\ parse.mode = "file"
    /\ LET file_path == parse.file_paths[1]
       IN  \E outcome \in UploadOutcomes(file_path) :
              parse' =
                 IF outcome # "ok"
                 THEN [parse EXCEPT
                         !.results = <<FailureEntry(file_path, outcome)>>,
                         !.pc = "returned"]
                 ELSE IF ~parse.wait_for_completion
                 THEN [parse EXCEPT
                         !.uploaded = {0},
                         !.results = <<PendingResult(file_path, 1,
                                                     parse.result_type)>>,
                         !.pc = "returned"]
                 ELSE [parse EXCEPT !.uploaded = {0}, !.pc = "wait"]
    /\ UNCHANGED <<index_exists, docs, clock, call, history, started, faults,
                   run, ui, mapping, transport>>

\* lines 463-502: extract_from_file waits for the job and fetches its
\* result
ExtractFileJob ==
    /\ parse.pc = "wait"
    /\ LET file_path == parse.file_paths[1]
       IN  \E outcome \in JobOutcomes :
              parse' =
                 [parse EXCEPT
                    !.waited = {0},
                    !.results =
                       IF outcome = "SUCCESS"
                       THEN <<FileResult(file_path, 1, parse.result_type)>>
                       ELSE <<FailureEntry(file_path, outcome)>>,
                    !.pc = "returned"]
    /\ UNCHANGED <<index_exists, docs, clock, call, history, started, faults,
                   run, ui, mapping, transport>>

\* lines 607-618: save_results(results, output_dir, format_type) is called
\* with what the extraction returned
SaveStart ==
    /\ parse.pc = "returned"
    /\ \E format_type \in {"original", "json", "markdown", "text"} :
          parse' = [parse EXCEPT !.format_type = format_type, !.k = 1,
                                 !.pc = "save"]
    /\ UNCHANGED <<index_exists, docs, clock, call, history, started, faults,
                   run, ui, mapping, transport>>

\* lines 620-657: one pass of the loop over results
SaveResult ==
    /\ parse.pc = "save"
    /\ parse.k <= Len(parse.results)
    /\ LET result == parse.results[parse.k]
           target == SaveTarget(result, parse.format_type)
       IN  parse' =
              IF ~result.success
              THEN [parse EXCEPT !.k = @ + 1]
              ELSE IF target.raises # "none"
              THEN [parse EXCEPT !.pc = "save_raised",
                                 !.exception = target.raises]
              ELSE [parse EXCEPT
                      !.writes = Append(@, [stem |-> Stem(result.file_name),
                                            suffix |-> target.suffix,
                                            result |-> parse.k]),
                      !.k = @ + 1]
    /\ UNCHANGED <<index_exists, docs, clock, call, history, started, faults,
                   run, ui, mapping, transport>>

\* save_results returns
SaveReturn ==
    /\ parse.pc = "save"
    /\ parse.k > Len(parse.results)
    /\ parse' = [parse EXCEPT !.pc = "saved"]
    /\ UNCHANGED <<index_exists, docs, clock, call, history, started, faults,
                   run, ui, mapping, transport>>

NextExtract ==
    \/ ExtractUpload
    \/ ExtractJob
    \/ ExtractReturn
    \/ ExtractFileUpload
    \/ ExtractFileJob
    \/ SaveStart
    \/ SaveResult
    \/ SaveReturn

SpecExtract == InitExtract /\ [][NextExtract]_vars

-----------------------------------------------------------------------------
(* Properties of the extraction methods, checked under SpecExtract.        *)

\* extract_from_multiple_files has returned
FilesReturned ==
    /\ parse.mode = "files"
    /\ parse.pc \in {"returned", "save", "saved", "save_raised"}

\* the number of times file path f is in the input list, and the number
\* of result entries for it
TimesGiven(f) ==
    Cardinality({n \in DOMAIN parse.file_paths : parse.file_paths[n] = f})

TimesReported(f) ==
    Cardinality({n \in DOMAIN parse.results :
                    parse.results[n].file_path = f})

\* C28: extract_from_multiple_files returns exactly one result entry per
\* input file path, for every list of paths, every max_concurrent >= 1 and
\* every pattern of upload and parse failures: every job whose upload
\* succeeded has been waited for and reported (none is left in the pending
\* batch), and every failed file has its failure entry
C28_OneResultPerFile ==
    FilesReturned =>
       /\ Len(parse.results) = Len(parse.file_paths)
       /\ \A f \in ParseFiles : TimesReported(f) = TimesGiven(f)
       /\ parse.uploaded \subseteq parse.waited
       /\ parse.active_jobs = <<>>

\* save_results has returned or raised
SaveEnded == parse.pc \in {"saved", "save_raised"}

\* the number of files save_results wrote for the result at position n
WritesFor(n) ==
    Cardinality({w \in DOMAIN parse.writes : parse.writes[w].result = n})

\* C30: save_results with the default format_type "original" accepts every
\* result of extract_from_file and extract_from_multiple_files, of any
\* result type, without an exception, and writes exactly one output file
\* per successful result and none for an unsuccessful one
C30_SaveAcceptsResults ==
    (SaveEnded /\ parse.format_type = "original") =>
       /\ parse.pc = "saved"
       /\ \A n \in DOMAIN parse.results :
             WritesFor(n) = IF parse.results[n].success THEN 1 ELSE 0

=============================================================================
